---- MODULE Spec2Model ----
(***************************************************************************)
(* Model of the wallet core of go-sdk: the KeyDeriver (invoice-number      *)
(* based child key derivation), the CachedKeyDeriver (LRU cache behind a   *)
(* mutex) and the ProtoWallet operations built on them.                    *)
(*                                                                         *)
(* Strings are sequences of one-character strings, byte strings are        *)
(* sequences of small naturals.  The secp256k1 group is represented by the *)
(* cyclic group Z_n of prime order n with generator G = 1 (a point is its  *)
(* discrete logarithm), which keeps every algebraic law of the curve.      *)
(***************************************************************************)
EXTENDS Integers, Sequences, FiniteSets, TLC

(***************************************************************************)
(* Characters and strings                                                  *)
(***************************************************************************)
Lower == <<"a","b","c","d","e","f","g","h","i","j","k","l","m",
           "n","o","p","q","r","s","t","u","v","w","x","y","z">>

Upper == <<"A","B","C","D","E","F","G","H","I","J","K","L","M",
           "N","O","P","Q","R","S","T","U","V","W","X","Y","Z">>

Digits == <<"0","1","2","3","4","5","6","7","8","9">>

Range(s) == {s[i] : i \in DOMAIN s}

LowerChars == Range(Lower)

UpperChars == Range(Upper)

DigitChars == Range(Digits)

IndexOf(s, c) ==
  IF \E i \in DOMAIN s : s[i] = c THEN CHOOSE i \in DOMAIN s : s[i] = c ELSE 0

\* strings.ToLower
ToLower(s) ==
  [i \in DOMAIN s |-> IF s[i] \in UpperChars THEN Lower[IndexOf(Upper, s[i])] ELSE s[i]]

\* unicode.IsSpace on the characters of the inputs
IsSpace(c) == c \in {" ", "\t", "\n", "\r"}

RECURSIVE TrimLeft(_)
TrimLeft(s) == IF s # <<>> /\ IsSpace(Head(s)) THEN TrimLeft(Tail(s)) ELSE s

RECURSIVE TrimRight(_)
TrimRight(s) ==
  IF s # <<>> /\ IsSpace(s[Len(s)]) THEN TrimRight(SubSeq(s, 1, Len(s) - 1)) ELSE s

\* strings.TrimSpace
TrimSpace(s) == TrimRight(TrimLeft(s))

\* strings.HasPrefix
HasPrefix(s, p) == Len(s) >= Len(p) /\ SubSeq(s, 1, Len(p)) = p

\* strings.HasSuffix
HasSuffix(s, p) == Len(s) >= Len(p) /\ SubSeq(s, Len(s) - Len(p) + 1, Len(s)) = p

\* strings.Contains
Contains(s, p) ==
  \E i \in 1..(Len(s) - Len(p) + 1) : SubSeq(s, i, i + Len(p) - 1) = p

\* regexOnlyLettersNumbersSpaces: ^[a-z0-9 ]+$
MatchLettersNumbersSpaces(s) ==
  /\ s # <<>>
  /\ \A i \in DOMAIN s : s[i] \in LowerChars \/ s[i] \in DigitChars \/ s[i] = " "

\* the decimal rendering of fmt.Sprintf("%d", n)
RECURSIVE NatToString(_)
NatToString(n) ==
  IF n < 10 THEN <<Digits[n + 1]>>
  ELSE NatToString(n \div 10) \o <<Digits[(n % 10) + 1]>>

LinkagePrefix ==
  <<"s","p","e","c","i","f","i","c"," ","l","i","n","k","a","g","e"," ",
    "r","e","v","e","l","a","t","i","o","n"," ">>

ProtocolSuffix == <<" ","p","r","o","t","o","c","o","l">>

(***************************************************************************)
(* Results: err = <<>> means success; a wrapped error is the chain of its  *)
(* messages, outermost first.                                              *)
(***************************************************************************)
NoErr == <<>>

Ok(v) == [err |-> NoErr, val |-> v]

Fail(e, zero) == [err |-> e, val |-> zero]

Wrap(msg, r) == [err |-> <<msg>> \o r.err, val |-> r.val]

IsOk(r) == r.err = NoErr

(***************************************************************************)
(* KeyDeriver.computeInvoiceNumber                                         *)
(***************************************************************************)
MaxKeyIDLen == 800

MaxProtocolLen == 400

MaxLinkageLen == 430

MinProtocolLen == 5

\* the checks of computeInvoiceNumber on the trimmed, lower-cased protocol
\* name, in their order, and the invoice number
invoiceNumberOf(securityLevel, protocolName, keyID) ==
  IF securityLevel < 0 \/ securityLevel > 2
    THEN Fail(<<"protocol security level must be 0, 1, or 2">>, <<>>)
  ELSE IF Len(keyID) > MaxKeyIDLen
    THEN Fail(<<"key IDs must be 800 characters or less">>, <<>>)
  ELSE IF Len(keyID) < 1
    THEN Fail(<<"key IDs must be 1 character or more">>, <<>>)
  ELSE IF Len(protocolName) > MaxProtocolLen
          /\ HasPrefix(protocolName, LinkagePrefix)
          /\ Len(protocolName) > MaxLinkageLen
    THEN Fail(<<"specific linkage revelation protocol names must be 430 characters or less">>, <<>>)
  ELSE IF Len(protocolName) > MaxProtocolLen
          /\ ~HasPrefix(protocolName, LinkagePrefix)
    THEN Fail(<<"protocol names must be 400 characters or less">>, <<>>)
  ELSE IF Len(protocolName) < MinProtocolLen
    THEN Fail(<<"protocol names must be 5 characters or more">>, <<>>)
  ELSE IF Contains(protocolName, <<" ", " ">>)
    THEN Fail(<<"protocol names cannot contain multiple consecutive spaces (\"  \")">>, <<>>)
  ELSE IF ~MatchLettersNumbersSpaces(protocolName)
    THEN Fail(<<"protocol names can only contain letters, numbers and spaces">>, <<>>)
  ELSE IF HasSuffix(protocolName, ProtocolSuffix)
    THEN Fail(<<"no need to end your protocol name with \" protocol\"">>, <<>>)
  ELSE Ok(NatToString(securityLevel) \o <<"-">> \o protocolName \o <<"-">> \o keyID)

\* a computeInvoiceNumber that checks the protocol name as it is given
computeInvoiceNumberRaw(protocol, keyID) ==
  invoiceNumberOf(protocol.SecurityLevel, protocol.Protocol, keyID)

computeInvoiceNumber(protocol, keyID) ==
  invoiceNumberOf(protocol.SecurityLevel, ToLower(TrimSpace(protocol.Protocol)), keyID)

(***************************************************************************)
(* EC primitives on the toy group: a point is a residue mod CurveN, the    *)
(* point at infinity is 0 and the generator is 1.                          *)
(***************************************************************************)
CurveN == 23

\* scalar base multiplication d * G
PubKey(d) == d % CurveN

\* scalar multiplication d * P
ScalarMult(d, P) == (d * P) % CurveN

PointAdd(P, Q) == (P + Q) % CurveN

\* x-coordinate of a point: P and -P share it
XCoord(P) == IF P = 0 THEN 0 ELSE IF P <= CurveN - P THEN P ELSE CurveN - P

\* the code of a character: its position in the lower-case letters, the
\* digits, the space, the dash and the upper-case letters; 0 for any other
CharCode(c) ==
  IF c \in LowerChars THEN IndexOf(Lower, c)
  ELSE IF c \in DigitChars THEN Len(Lower) + IndexOf(Digits, c)
  ELSE IF c = " " THEN Len(Lower) + Len(Digits) + 1
  ELSE IF c = "-" THEN Len(Lower) + Len(Digits) + 2
  ELSE IF c \in UpperChars THEN Len(Lower) + Len(Digits) + 2 + IndexOf(Upper, c)
  ELSE 0

\* a position-weighted sum of the codes of the first n characters of s
RECURSIVE WeightedOf(_, _)
WeightedOf(s, n) == IF n = 0 THEN 0 ELSE n * CharCode(s[n]) + WeightedOf(s, n - 1)

\* HMAC-SHA-512 of msg under key, read as a scalar; its range keeps the
\* derived scalars away from 0 for the small root keys
Sha512HMAC(msg, key) ==
  1 + ((7 * key + WeightedOf(msg, Len(msg)) + Len(msg)) % (CurveN - 4))

\* a *ec.PublicKey: the address gives the pointer identity, point the value
NilKey == [addr |-> 0, point |-> 0 - 1]

\* a key the program constructs: a pointer no caller holds
NewPublicKey(P) == [addr |-> 99, point |-> P]

\* PrivateKey.DeriveSharedSecret
DeriveSharedSecret(priv, pub) ==
  IF pub.addr = 0 \/ pub.point = 0 THEN Fail(<<"invalid public key">>, 0)
  ELSE Ok(ScalarMult(priv, pub.point))

\* the scalar t of the child derivation
ChildScalar(priv, pub, invoiceNumber) ==
  Sha512HMAC(invoiceNumber, XCoord(ScalarMult(priv, pub.point))) % CurveN

\* the child of a private key by the scalar t
PrivAddScalar(priv, t) ==
  IF t = 0 \/ (priv + t) % CurveN = 0 THEN Fail(<<"degenerate derivation">>, 0)
  ELSE Ok((priv + t) % CurveN)

\* PrivateKey.DeriveChild: rootPriv + t (mod n)
PrivDeriveChild(priv, pub, invoiceNumber) ==
  IF ~IsOk(DeriveSharedSecret(priv, pub)) THEN DeriveSharedSecret(priv, pub)
  ELSE PrivAddScalar(priv, ChildScalar(priv, pub, invoiceNumber))

\* the child of a public key by the scalar t
PubAddScalar(point, t) ==
  IF t = 0 \/ PointAdd(point, PubKey(t)) = 0 THEN Fail(<<"degenerate derivation">>, 0)
  ELSE Ok(PointAdd(point, PubKey(t)))

\* PublicKey.DeriveChild: counterpartyPub + t * G
PubDeriveChild(pub, priv, invoiceNumber) ==
  IF ~IsOk(DeriveSharedSecret(priv, pub)) THEN DeriveSharedSecret(priv, pub)
  ELSE PubAddScalar(pub.point, ChildScalar(priv, pub, invoiceNumber))

\* ec.PrivateKeyFromBytes([]byte{1}): the anyone key
AnyonePriv == 1

(***************************************************************************)
(* Counterparty (wallet.go) and KeyDeriver                                 *)
(***************************************************************************)
CounterpartyUninitialized == 0

CounterpartyTypeAnyone == 1

CounterpartyTypeSelf == 2

CounterpartyTypeOther == 3

Counterparty(type, key) == [Type |-> type, Counterparty |-> key]

Uninitialized == Counterparty(CounterpartyUninitialized, NilKey)

Self == Counterparty(CounterpartyTypeSelf, NilKey)

Anyone == Counterparty(CounterpartyTypeAnyone, NilKey)

Other(key) == Counterparty(CounterpartyTypeOther, key)

NewKeyDeriver(privateKey) == [privateKey |-> privateKey, publicKey |-> PubKey(privateKey)]

\* a normalizeCounterparty that takes every counterparty for the deriver itself
normalizeCounterpartyOwn(kd, counterparty) == NewPublicKey(PubKey(kd.privateKey))

normalizeCounterparty(kd, counterparty) ==
  CASE counterparty.Type = CounterpartyTypeSelf -> NewPublicKey(PubKey(kd.privateKey))
    [] counterparty.Type = CounterpartyTypeOther -> counterparty.Counterparty
    [] counterparty.Type = CounterpartyTypeAnyone -> NewPublicKey(PubKey(AnyonePriv))
    [] OTHER -> NilKey

\* DerivePublicKey, forSelf: the public key of the derived child private key
childPublicKeyForSelf(privKey) ==
  IF ~IsOk(privKey) THEN Wrap("failed to derive child private key", privKey)
  ELSE Ok(PubKey(privKey.val))

\* DerivePublicKey, not forSelf: the derived child of the counterparty's key
childPublicKey(pubKey) ==
  IF ~IsOk(pubKey) THEN Wrap("failed to derive child public key", pubKey) ELSE pubKey

\* a DerivePublicKey that takes the branch of forSelf = false for every call
derivePublicKeyNotForSelf(kd, counterpartyKey, invoiceNumber, forSelf) ==
  IF ~IsOk(invoiceNumber)
    THEN Wrap("failed to compute invoice number", Fail(invoiceNumber.err, 0))
  ELSE childPublicKey(PubDeriveChild(counterpartyKey, kd.privateKey, invoiceNumber.val))

\* DerivePublicKey once the counterparty key and the invoice number are there
derivePublicKeyFor(kd, counterpartyKey, invoiceNumber, forSelf) ==
  IF ~IsOk(invoiceNumber)
    THEN Wrap("failed to compute invoice number", Fail(invoiceNumber.err, 0))
  ELSE IF forSelf
    THEN childPublicKeyForSelf(PrivDeriveChild(kd.privateKey, counterpartyKey,
                                               invoiceNumber.val))
  ELSE childPublicKey(PubDeriveChild(counterpartyKey, kd.privateKey, invoiceNumber.val))

KdDerivePublicKey(kd, protocol, keyID, counterparty, forSelf) ==
  derivePublicKeyFor(kd, normalizeCounterparty(kd, counterparty),
                     computeInvoiceNumber(protocol, keyID), forSelf)

\* DerivePrivateKey: the derived child of the root key
childPrivateKey(k) == IF ~IsOk(k) THEN Wrap("failed to derive child key", k) ELSE k

\* DerivePrivateKey once the counterparty key and the invoice number are there
derivePrivateKeyFor(kd, counterpartyKey, invoiceNumber) ==
  IF ~IsOk(invoiceNumber) THEN Fail(invoiceNumber.err, 0)
  ELSE childPrivateKey(PrivDeriveChild(kd.privateKey, counterpartyKey, invoiceNumber.val))

KdDerivePrivateKey(kd, protocol, keyID, counterparty) ==
  derivePrivateKeyFor(kd, normalizeCounterparty(kd, counterparty),
                      computeInvoiceNumber(protocol, keyID))

\* the DeriveChild call DerivePublicKey and DerivePrivateKey make once the
\* invoice number is computed, with the counterparty key they hand it
DeriveChildCalls(kd, protocol, keyID, counterparty) ==
  IF IsOk(computeInvoiceNumber(protocol, keyID))
    THEN <<[method |-> "DeriveChild", key |-> normalizeCounterparty(kd, counterparty)]>>
  ELSE <<>>

\* the counterparty DeriveSymmetricKey derives with: 'anyone' becomes the fixed key
SymmetricCounterparty(counterparty) ==
  IF counterparty.Type = CounterpartyTypeAnyone
    THEN Other(NewPublicKey(PubKey(AnyonePriv)))
    ELSE counterparty

\* a DeriveSymmetricKey that derives a key for 'self' as for any counterparty
SymmetricSelfAccepted(counterparty) == FALSE

\* the first check of DeriveSymmetricKey: the counterparty is 'self'
SymmetricSelfRejected(counterparty) == counterparty.Type = CounterpartyTypeSelf

\* DeriveSymmetricKey: the x coordinate of the shared secret
symmetricKeyOf(sharedSecret) ==
  IF ~IsOk(sharedSecret) THEN Wrap("failed to create shared secret", sharedSecret)
  ELSE Ok(XCoord(sharedSecret.val))

\* DeriveSymmetricKey once both keys are derived
symmetricKeyFrom(derivedPublicKey, derivedPrivateKey) ==
  IF ~IsOk(derivedPublicKey) THEN Wrap("failed to derive public key", derivedPublicKey)
  ELSE IF ~IsOk(derivedPrivateKey)
    THEN Wrap("failed to derive private key", derivedPrivateKey)
  ELSE symmetricKeyOf(DeriveSharedSecret(derivedPrivateKey.val,
                                         NewPublicKey(derivedPublicKey.val)))

\* DeriveSymmetricKey after the self check and the rewrite of 'anyone'
symmetricKeyFor(kd, protocol, keyID, counterparty) ==
  symmetricKeyFrom(KdDerivePublicKey(kd, protocol, keyID, counterparty, FALSE),
                   KdDerivePrivateKey(kd, protocol, keyID, counterparty))

KdDeriveSymmetricKey(kd, protocol, keyID, counterparty) ==
  IF SymmetricSelfRejected(counterparty)
    THEN Fail(<<"cannot derive symmetric key for self">>, 0)
  ELSE symmetricKeyFor(kd, protocol, keyID, SymmetricCounterparty(counterparty))

\* a call on the KeyDeriver, or a call one of its methods makes in turn
KeyDeriverCall(method, counterparty) == [method |-> method, counterparty |-> counterparty]

\* the derivations DeriveSymmetricKey makes for the counterparty it derives with
symmetricKeyCallsFor(kd, protocol, keyID, counterparty) ==
  <<KeyDeriverCall("DerivePublicKey", counterparty)>> \o
  (IF IsOk(KdDerivePublicKey(kd, protocol, keyID, counterparty, FALSE))
     THEN <<KeyDeriverCall("DerivePrivateKey", counterparty)>>
     ELSE <<>>)

\* the derivations DeriveSymmetricKey makes, in order
SymmetricKeyCalls(kd, protocol, keyID, counterparty) ==
  IF SymmetricSelfRejected(counterparty) THEN <<>>
  ELSE symmetricKeyCallsFor(kd, protocol, keyID, SymmetricCounterparty(counterparty))

(***************************************************************************)
(* Hashes, ECDSA and the symmetric cipher on byte strings (sequences of    *)
(* numbers 0..255), scaled to the toy group.                               *)
(***************************************************************************)
HashLen == 32

NonceLen == 32

TagLen == 16

\* a position-weighted sum of the first n bytes of b
RECURSIVE WeightedTo(_, _)
WeightedTo(b, n) == IF n = 0 THEN 0 ELSE n * (b[n] + 1) + WeightedTo(b, n - 1)

\* the digest bytes spread from a seed
Digest(seed, step) == [i \in 1..HashLen |-> (seed + step * i) % 256]

\* hash.Sha256: a 32-byte digest
Sha256(b) == Digest(WeightedTo(b, Len(b)) + Len(b), 31)

\* hmac.New(sha256.New, key) over data: a 32-byte code
HmacSha256(keyBytes, data) == Digest(7 * keyBytes + WeightedTo(data, Len(data)), 13)

\* a message hash read as a scalar
RECURSIVE BytesToIntOf(_, _)
BytesToIntOf(b, n) == IF n = 0 THEN 0 ELSE (256 * BytesToIntOf(b, n - 1) + b[n]) % CurveN

\* the inverse of a non-zero scalar mod CurveN
Inverse(a) == CHOOSE x \in 1..(CurveN - 1) : (a * x) % CurveN = 1

SigR(k) == XCoord(PubKey(k)) % CurveN

SigS(k, priv, h) == (Inverse(k) * (BytesToIntOf(h, Len(h)) + SigR(k) * priv)) % CurveN

\* the i-th nonce candidate after the first
SigCandidate(first, i) == 1 + ((first - 1 + i) % (CurveN - 1))

\* a nonce that gives a signature with non-zero r and s
SigGood(k, priv, h) == SigR(k) # 0 /\ SigS(k, priv, h) # 0

\* the deterministic nonce of RFC 6979: the first candidate that gives a
\* signature with non-zero r and s
SigNonceFrom(first, priv, h) ==
  SigCandidate(first,
    CHOOSE i \in 0..(CurveN - 2) :
      /\ SigGood(SigCandidate(first, i), priv, h)
      /\ \A j \in 0..(i - 1) : ~SigGood(SigCandidate(first, j), priv, h))

\* the signature made with the nonce k
SignWith(k, priv, h) == Ok([R |-> SigR(k), S |-> SigS(k, priv, h)])

\* PrivateKey.Sign
Sign(priv, h) ==
  SignWith(SigNonceFrom(1 + ((5 * priv + BytesToIntOf(h, Len(h))) % (CurveN - 1)), priv, h),
           priv, h)

NoSignature == [R |-> 0, S |-> 0]

\* the point u1 * G + u2 * pub has the x coordinate r
VerifyPoint(P, r) == P # 0 /\ XCoord(P) % CurveN = r

\* the check of a signature (r, s) with w the inverse of s, on the hash e
VerifyWith(r, e, w, pub) ==
  VerifyPoint(PointAdd(PubKey((e * w) % CurveN), ScalarMult((r * w) % CurveN, pub)), r)

\* Signature.Verify
Verify(sig, h, pub) ==
  /\ sig.R \in 1..(CurveN - 1)
  /\ sig.S \in 1..(CurveN - 1)
  /\ VerifyWith(sig.R, BytesToIntOf(h, Len(h)), Inverse(sig.S), pub)

\* the sum of the bytes of b from position lo to position hi
RECURSIVE SumBytes(_, _, _)
SumBytes(b, lo, hi) == IF hi < lo THEN 0 ELSE b[hi] + SumBytes(b, lo, hi - 1)

\* the authentication tag of a body with weighted sum w
Tag(k, n, w) == [j \in 1..TagLen |-> (5 * k * j + n + w) % 256]

\* the body of a message: the text and the key stream of key k under a
\* nonce with byte sum n, added or subtracted
Mask(k, n, text, sign) ==
  [i \in DOMAIN text |-> (text[i] + 256 + sign * ((11 * k + n + 3 * i) % 256)) % 256]

\* nonce || ciphertext || tag under a nonce with byte sum n
Seal(nonce, body, k, n) == Ok(nonce \o body \o Tag(k, n, WeightedTo(body, Len(body))))

\* SymmetricKey.Encrypt: nonce || ciphertext || tag
SymEncrypt(k, plaintext, nonce) ==
  Seal(nonce, Mask(k, SumBytes(nonce, 1, Len(nonce)), plaintext, 1), k,
       SumBytes(nonce, 1, Len(nonce)))

\* the opening of a message of the right length under a nonce with byte sum n
Open(k, n, body, tag) ==
  IF tag # Tag(k, n, WeightedTo(body, Len(body)))
    THEN Fail(<<"cipher: message authentication failed">>, <<>>)
  ELSE Ok(Mask(k, n, body, 0 - 1))

\* SymmetricKey.Decrypt: parses nonce || ciphertext || tag and checks the tag
SymDecrypt(k, message) ==
  IF Len(message) < NonceLen + TagLen THEN Fail(<<"ciphertext too short">>, <<>>)
  ELSE Open(k, SumBytes(message, 1, NonceLen),
            SubSeq(message, NonceLen + 1, Len(message) - TagLen),
            SubSeq(message, Len(message) - TagLen + 1, Len(message)))

(***************************************************************************)
(* Inputs of the derive calls                                              *)
(***************************************************************************)
Protocol(level, name) == [SecurityLevel |-> level, Protocol |-> name]

TestsProtocol == Protocol(2, <<"t","e","s","t","s">>)

ShortProtocol == Protocol(2, <<"x">>)

KeyID4 == <<"4">>

\* roots of the two parties; the anyone key is AnyonePriv
RootKeys == {2, 3}

\* a public key of root 3 held by a caller
KeyB == [addr |-> 1, point |-> PubKey(3)]

DeriveArgs(method, protocol, keyID, counterparty, forSelf) ==
  [method |-> method, protocol |-> protocol, keyID |-> keyID,
   counterparty |-> counterparty, forSelf |-> forSelf]

BaseArgs == DeriveArgs("derivePublicKey", TestsProtocol, KeyID4, Other(KeyB), FALSE)

\* the calls the threads make: the base call, calls that differ from it in
\* the method, the forSelf flag or the counterparty (Self, and a separately
\* constructed key of the same root), and a failing call
CallArgs ==
  {BaseArgs,
   [BaseArgs EXCEPT !.forSelf = TRUE],
   [BaseArgs EXCEPT !.counterparty = Self],
   [BaseArgs EXCEPT !.counterparty = Other([KeyB EXCEPT !.addr = 2])],
   [BaseArgs EXCEPT !.method = "derivePrivateKey"],
   [BaseArgs EXCEPT !.method = "deriveSymmetricKey"],
   [BaseArgs EXCEPT !.method = "deriveSymmetricKey", !.counterparty = Self]}

(***************************************************************************)
(* container/list: a list is the sequence of its elements, front first;    *)
(* an element is its identity and the Value it carries.                    *)
(***************************************************************************)
ElemIds(l) == {l[i].id : i \in DOMAIN l}

ElemAt(l, e) == CHOOSE i \in DOMAIN l : l[i].id = e

RemoveAt(l, i) == SubSeq(l, 1, i - 1) \o SubSeq(l, i + 1, Len(l))

\* list.PushFront
PushFront(l, e, v) == <<[id |-> e, Value |-> v]>> \o l

\* list.MoveToFront: no effect when e is not an element of the list
MoveToFront(l, e) ==
  IF e \notin ElemIds(l) THEN l
  ELSE <<l[ElemAt(l, e)]>> \o RemoveAt(l, ElemAt(l, e))

\* a Remove that leaves the element in the list
RemoveNothing(l, e) == l

\* list.Remove
Remove(l, e) == IF e \notin ElemIds(l) THEN l ELSE RemoveAt(l, ElemAt(l, e))

\* list.Back: the position of the last element, 0 for nil
Back(l) == Len(l)

(***************************************************************************)
(* ProtoWallet                                                             *)
(***************************************************************************)
\* the argument structs, flattened: EncryptionArgs and the fields of
\* EncryptArgs, DecryptArgs, CreateSignatureArgs, VerifySignatureArgs,
\* CreateHmacArgs and VerifyHmacArgs (Nonce is the randomness Encrypt draws)
WalletArgs(protocol, keyID, counterparty, data, hash, signature, hmac, forSelf, nonce) ==
  [ProtocolID |-> protocol, KeyID |-> keyID, Counterparty |-> counterparty,
   Data |-> data, Hash |-> hash, Signature |-> signature, Hmac |-> hmac,
   ForSelf |-> forSelf, Nonce |-> nonce]

\* the result structs, flattened: Ciphertext / Plaintext / Hmac bytes, the
\* Signature, the Valid flag, and the error
WalletResult(err, bytes, signature, valid) ==
  [err |-> err, Bytes |-> bytes, Signature |-> signature, Valid |-> valid]

WalletError(e) == WalletResult(e, <<>>, NoSignature, FALSE)

NilKeyDeriver == [privateKey |-> 0, publicKey |-> 0]

ProtoWalletArgsTypePrivateKey == "privateKey"

ProtoWalletArgsTypeKeyDeriver == "keyDeriver"

ProtoWalletArgsTypeAnyone == "anyone"

\* ProtoWalletArgs; a nil PrivateKey is 0, a nil KeyDeriver is NilKeyDeriver
ProtoWalletArgs(type, privateKey, kd) ==
  [Type |-> type, PrivateKey |-> privateKey, KeyDeriver |-> kd]

\* the nil *ProtoWallet
NoProtoWallet == [keyDeriver |-> NilKeyDeriver]

\* &ProtoWallet{keyDeriver: NewKeyDeriver(privateKey)}: NewKeyDeriver calls
\* privateKey.PubKey(), which dereferences the pointer
WalletOfKey(privateKey) ==
  IF privateKey = NilKeyDeriver.privateKey
    THEN Fail(<<"panic: nil pointer dereference">>, NoProtoWallet)
  ELSE Ok([keyDeriver |-> NewKeyDeriver(privateKey)])

NewProtoWallet(rootKeyOrKeyDeriver) ==
  CASE rootKeyOrKeyDeriver.Type = ProtoWalletArgsTypeKeyDeriver ->
         WalletOfKey(rootKeyOrKeyDeriver.PrivateKey)
    [] rootKeyOrKeyDeriver.Type = ProtoWalletArgsTypePrivateKey ->
         WalletOfKey(rootKeyOrKeyDeriver.PrivateKey)
    [] rootKeyOrKeyDeriver.Type = ProtoWalletArgsTypeAnyone ->
         WalletOfKey(NilKeyDeriver.privateKey)
    [] OTHER -> Fail(<<"invalid rootKeyOrKeyDeriver">>, NoProtoWallet)

\* NewWallet: the ProtoWallet of a private key
NewWallet(privateKey) ==
  NewProtoWallet(ProtoWalletArgs(ProtoWalletArgsTypePrivateKey, privateKey, NilKeyDeriver)).val

\* Encrypt: the counterparty handed to DeriveSymmetricKey
EncryptCounterparty(a) ==
  IF a.Counterparty.Type = CounterpartyUninitialized THEN Self ELSE a.Counterparty

\* Decrypt: the counterparty handed to DeriveSymmetricKey is args.Counterparty;
\* the defaulted counterpartyObj is computed and not used
DecryptCounterparty(a) == a.Counterparty

\* a CreateSignature that defaults to 'self' as the other operations do
CreateSignatureCounterpartySelf(a) ==
  IF a.Counterparty.Type = CounterpartyUninitialized THEN Self ELSE a.Counterparty

\* CreateSignature: the counterparty handed to DerivePrivateKey
CreateSignatureCounterparty(a) ==
  IF a.Counterparty.Type = CounterpartyUninitialized THEN Anyone ELSE a.Counterparty

\* VerifySignature: the counterparty handed to DerivePublicKey
VerifySignatureCounterparty(a) ==
  IF a.Counterparty.Type = CounterpartyUninitialized THEN Self ELSE a.Counterparty

\* CreateHmac and VerifyHmac: the counterparty handed to DeriveSymmetricKey
HmacCounterparty(a) ==
  IF a.Counterparty.Type = CounterpartyUninitialized THEN Self ELSE a.Counterparty

\* Encrypt: the result of key.Encrypt
encryptResult(encrypted) ==
  IF ~IsOk(encrypted) THEN WalletError(<<"failed to encrypt">> \o encrypted.err)
  ELSE WalletResult(NoErr, encrypted.val, NoSignature, FALSE)

\* Encrypt once DeriveSymmetricKey has returned
encryptWith(key, a) ==
  IF ~IsOk(key) THEN WalletError(<<"failed to derive symmetric key">> \o key.err)
  ELSE encryptResult(SymEncrypt(key.val, a.Data, a.Nonce))

Encrypt(p, a) ==
  IF p.keyDeriver = NilKeyDeriver THEN WalletError(<<"keyDeriver is undefined">>)
  ELSE encryptWith(KdDeriveSymmetricKey(p.keyDeriver, a.ProtocolID, a.KeyID,
                                        EncryptCounterparty(a)), a)

\* Decrypt: the result of key.Decrypt
decryptResult(plaintext) ==
  IF ~IsOk(plaintext) THEN WalletError(<<"failed to decrypt">> \o plaintext.err)
  ELSE WalletResult(NoErr, plaintext.val, NoSignature, FALSE)

\* Decrypt once DeriveSymmetricKey has returned
decryptWith(key, a) ==
  IF ~IsOk(key) THEN WalletError(<<"failed to derive symmetric key">> \o key.err)
  ELSE decryptResult(SymDecrypt(key.val, a.Data))

Decrypt(p, a) ==
  IF p.keyDeriver = NilKeyDeriver THEN WalletError(<<"keyDeriver is undefined">>)
  ELSE decryptWith(KdDeriveSymmetricKey(p.keyDeriver, a.ProtocolID, a.KeyID,
                                        DecryptCounterparty(a)), a)

\* a hash of the data whether or not a hash to sign directly is supplied
DataHashOfData(a) == Sha256(a.Data)

\* the hash CreateSignature signs and VerifySignature verifies
DataHash(a) == IF Len(a.Hash) > 0 THEN a.Hash ELSE Sha256(a.Data)

\* CreateSignature: the result of privKey.Sign
signatureResult(signature) ==
  IF ~IsOk(signature) THEN WalletError(<<"failed to create signature">> \o signature.err)
  ELSE WalletResult(NoErr, <<>>, signature.val, FALSE)

\* CreateSignature once DerivePrivateKey has returned
signWith(privKey, a) ==
  IF ~IsOk(privKey) THEN WalletError(<<"failed to derive private key">> \o privKey.err)
  ELSE signatureResult(Sign(privKey.val, DataHash(a)))

CreateSignature(p, a) ==
  IF p.keyDeriver = NilKeyDeriver THEN WalletError(<<"keyDeriver is undefined">>)
  ELSE IF Len(a.Data) = 0 /\ Len(a.Hash) = 0
    THEN WalletError(<<"args.data or args.hashToDirectlySign must be valid">>)
  ELSE signWith(KdDerivePrivateKey(p.keyDeriver, a.ProtocolID, a.KeyID,
                                   CreateSignatureCounterparty(a)), a)

\* a VerifySignature that reports a signature that does not verify as a
\* result with Valid = false
verifyWithInvalidResult(pubKey, a) ==
  IF ~IsOk(pubKey) THEN WalletError(<<"failed to derive public key">> \o pubKey.err)
  ELSE WalletResult(NoErr, <<>>, NoSignature, Verify(a.Signature, DataHash(a), pubKey.val))

\* VerifySignature once DerivePublicKey has returned
verifyWith(pubKey, a) ==
  IF ~IsOk(pubKey) THEN WalletError(<<"failed to derive public key">> \o pubKey.err)
  ELSE IF ~Verify(a.Signature, DataHash(a), pubKey.val)
    THEN WalletError(<<"signature is not valid">>)
  ELSE WalletResult(NoErr, <<>>, NoSignature, TRUE)

VerifySignature(p, a) ==
  IF p.keyDeriver = NilKeyDeriver THEN WalletError(<<"keyDeriver is undefined">>)
  ELSE IF Len(a.Data) = 0 /\ Len(a.Hash) = 0
    THEN WalletError(<<"args.data or args.hashToDirectlyVerify must be valid">>)
  ELSE verifyWith(KdDerivePublicKey(p.keyDeriver, a.ProtocolID, a.KeyID,
                                    VerifySignatureCounterparty(a), a.ForSelf), a)

\* CreateHmac once DeriveSymmetricKey has returned
createHmacWith(key, a) ==
  IF ~IsOk(key) THEN WalletError(<<"failed to derive symmetric key">> \o key.err)
  ELSE WalletResult(NoErr, HmacSha256(key.val, a.Data), NoSignature, FALSE)

CreateHmac(p, a) ==
  IF p.keyDeriver = NilKeyDeriver THEN WalletError(<<"keyDeriver is undefined">>)
  ELSE createHmacWith(KdDeriveSymmetricKey(p.keyDeriver, a.ProtocolID, a.KeyID,
                                           HmacCounterparty(a)), a)

\* VerifyHmac once DeriveSymmetricKey has returned
verifyHmacWith(key, a) ==
  IF ~IsOk(key) THEN WalletError(<<"failed to derive symmetric key">> \o key.err)
  ELSE WalletResult(NoErr, <<>>, NoSignature, HmacSha256(key.val, a.Data) = a.Hmac)

VerifyHmac(p, a) ==
  IF p.keyDeriver = NilKeyDeriver THEN WalletError(<<"keyDeriver is undefined">>)
  ELSE verifyHmacWith(KdDeriveSymmetricKey(p.keyDeriver, a.ProtocolID, a.KeyID,
                                           HmacCounterparty(a)), a)

\* GetPublicKey with IdentityKey: the public key of the wallet's root key
IdentityKey(root) == NewPublicKey(PubKey(root))

\* GetPublicKeyArgs
GetPublicKeyArgs(protocol, keyID, counterparty, identityKey, forSelf) ==
  [ProtocolID |-> protocol, KeyID |-> keyID, Counterparty |-> counterparty,
   IdentityKey |-> identityKey, ForSelf |-> forSelf]

\* a GetPublicKey that defaults to 'anyone' as CreateSignature does
GetPublicKeyCounterpartyAnyone(a) ==
  IF a.Counterparty.Type = CounterpartyUninitialized THEN Anyone ELSE a.Counterparty

\* GetPublicKey: the counterparty handed to DerivePublicKey
GetPublicKeyCounterparty(a) ==
  IF a.Counterparty.Type = CounterpartyUninitialized THEN Self ELSE a.Counterparty

\* GetPublicKey once DerivePublicKey has returned
getPublicKeyWith(pubKey) ==
  IF ~IsOk(pubKey) THEN WalletError(<<"failed to derive public key">> \o pubKey.err)
  ELSE WalletResult(NoErr, <<pubKey.val>>, NoSignature, FALSE)

\* GetPublicKey: the PublicKey of the result is the one element of Bytes
GetPublicKey(p, a) ==
  IF a.IdentityKey
    THEN IF p.keyDeriver = NilKeyDeriver THEN WalletError(<<"keyDeriver is undefined">>)
         ELSE WalletResult(NoErr, <<PubKey(p.keyDeriver.privateKey)>>, NoSignature, FALSE)
  ELSE IF Len(a.ProtocolID.Protocol) = 0 \/ Len(a.KeyID) = 0
    THEN WalletError(<<"protocolID and keyID are required if identityKey is false">>)
  ELSE IF p.keyDeriver = NilKeyDeriver THEN WalletError(<<"keyDeriver is undefined">>)
  ELSE getPublicKeyWith(KdDerivePublicKey(p.keyDeriver, a.ProtocolID, a.KeyID,
                                          GetPublicKeyCounterparty(a), a.ForSelf))

\* the call GetPublicKey makes on its KeyDeriver: none for the identity key
\* and none when the protocol name or the key ID is missing
GetPublicKeyCalls(a) ==
  IF a.IdentityKey \/ Len(a.ProtocolID.Protocol) = 0 \/ Len(a.KeyID) = 0 THEN <<>>
  ELSE <<KeyDeriverCall("DerivePublicKey", GetPublicKeyCounterparty(a))>>

\* the one call each ProtoWallet operation makes on its KeyDeriver
DeriverCall(op, a) ==
  CASE op = "Encrypt" -> KeyDeriverCall("DeriveSymmetricKey", EncryptCounterparty(a))
    [] op = "Decrypt" -> KeyDeriverCall("DeriveSymmetricKey", DecryptCounterparty(a))
    [] op = "CreateSignature" -> KeyDeriverCall("DerivePrivateKey", CreateSignatureCounterparty(a))
    [] op = "VerifySignature" -> KeyDeriverCall("DerivePublicKey", VerifySignatureCounterparty(a))
    [] OTHER -> KeyDeriverCall("DeriveSymmetricKey", HmacCounterparty(a))

\* a call on the KeyDeriver followed by the derivations it makes in turn
deriverCalls(c, p, a) ==
  <<c>> \o (IF c.method = "DeriveSymmetricKey"
              THEN SymmetricKeyCalls(p.keyDeriver, a.ProtocolID, a.KeyID, c.counterparty)
              ELSE <<>>)

\* the derivations an operation of the wallet causes, in order: none when the
\* signature operations reject their arguments first
WalletCalls(op, p, a) ==
  IF op \in {"CreateSignature", "VerifySignature"} /\ Len(a.Data) = 0 /\ Len(a.Hash) = 0
    THEN <<>>
  ELSE deriverCalls(DeriverCall(op, a), p, a)

(***************************************************************************)
(* CachedKeyDeriver                                                        *)
(***************************************************************************)
DefaultCacheSize == 1000

\* capacity requested by the caller of NewCachedKeyDeriver
CacheSize == 2

\* total number of derive calls made by the threads
MaxCalls == 4

Threads == {1, 2}

VARIABLES
  keyDeriver,     \* c.keyDeriver
  maxCacheSize,   \* c.maxCacheSize
  items,          \* c.cache.items: cacheKey -> [value, elem]
  list,           \* c.cache.list
  mu,             \* c.cache.mu: 0 when free, else the thread holding it
  pc,             \* position of each thread in its derive call
  args,           \* the arguments of each thread's call
  key,            \* the cacheKey of each thread's call
  val,            \* the value each thread got from the cache or derived
  ok,             \* whether each thread's cacheGet found its key
  ret,            \* what each thread's call returns
  calls,          \* number of calls started
  accessOrder,    \* history: the cached keys by last access, most recent first
  lastPut,        \* history: the value most recently put for each key
  wcall,          \* the latest ProtoWallet / KeyDeriver call: operation, root, arguments
  wresult,        \* what that call returned
  wlog,           \* the derivations that call asked of its KeyDeriver
  wire            \* the ciphertext, signature or HMAC that the latest call
                  \* produced or was handed, if any

cacheVars == <<keyDeriver, maxCacheSize, items, list, mu, pc, args, key, val, ok, ret,
               calls, accessOrder, lastPut>>

walletVars == <<wcall, wresult, wlog, wire>>

NoKey == DeriveArgs("", TestsProtocol, <<>>, Uninitialized, FALSE)

NoValue == [kind |-> "", v |-> 0]

NoRet == Ok(NoValue)

\* the type of value each method caches: *ec.PublicKey, *ec.PrivateKey, *ec.SymmetricKey
KindOf(method) ==
  CASE method = "derivePublicKey" -> "PublicKey"
    [] method = "derivePrivateKey" -> "PrivateKey"
    [] method = "deriveSymmetricKey" -> "SymmetricKey"
    [] OTHER -> ""

NewCachedKeyDeriver(rootKey, size) ==
  [keyDeriver |-> NewKeyDeriver(rootKey),
   items |-> <<>>,
   list |-> <<>>,
   maxCacheSize |-> IF size <= 0 THEN DefaultCacheSize ELSE size]

\* a cacheKey that leaves the forSelf flag out
cacheKeyNoForSelf(a) ==
  DeriveArgs(a.method, a.protocol, a.keyID, a.counterparty, FALSE)

\* the cacheKey each Derive method builds from its arguments
cacheKey(a) ==
  DeriveArgs(a.method, a.protocol, a.keyID, a.counterparty,
             IF a.method = "derivePublicKey" THEN a.forSelf ELSE FALSE)

\* what a Derive method has in hand after the call on the wrapped KeyDeriver
derived(method, r) ==
  [err |-> r.err,
   val |-> IF IsOk(r) THEN [kind |-> KindOf(method), v |-> r.val] ELSE NoValue]

\* the call each Derive method makes on the wrapped KeyDeriver
Underlying(kd, a) ==
  derived(a.method,
          CASE a.method = "derivePublicKey" ->
                 KdDerivePublicKey(kd, a.protocol, a.keyID, a.counterparty, a.forSelf)
            [] a.method = "derivePrivateKey" ->
                 KdDerivePrivateKey(kd, a.protocol, a.keyID, a.counterparty)
            [] OTHER ->
                 KdDeriveSymmetricKey(kd, a.protocol, a.keyID, a.counterparty))

NoArgs == WalletArgs(TestsProtocol, <<>>, Uninitialized, <<>>, <<>>, NoSignature, <<>>, FALSE, <<>>)

NoWire == [kind |-> "", root |-> 0, args |-> NoArgs, out |-> WalletError(NoErr)]

\* no wallet call has been made
WalletIdle ==
  /\ wcall = [op |-> "", root |-> 0, args |-> NoArgs]
  /\ wresult = WalletError(NoErr)
  /\ wlog = <<>>
  /\ wire = NoWire

CacheInit ==
  /\ \E size \in {CacheSize}, root \in {2} :
       LET c == NewCachedKeyDeriver(root, size) IN
       /\ keyDeriver = c.keyDeriver
       /\ maxCacheSize = c.maxCacheSize
       /\ items = c.items
       /\ list = c.list
  /\ mu = 0
  /\ pc = [t \in Threads |-> "idle"]
  /\ args = [t \in Threads |-> NoKey]
  /\ key = [t \in Threads |-> NoKey]
  /\ val = [t \in Threads |-> NoValue]
  /\ ok = [t \in Threads |-> FALSE]
  /\ ret = [t \in Threads |-> NoRet]
  /\ calls = 0
  /\ accessOrder = <<>>
  /\ lastPut = <<>>
  /\ WalletIdle

\* history: k becomes the most recently accessed key
Touch(order, k) == <<k>> \o SelectSeq(order, LAMBDA x : x # k)

\* an element identity that no element of the list and no map entry carries
FreshElem ==
  CHOOSE e \in 1..(Len(list) + Cardinality(DOMAIN items) + 1) :
    /\ e \notin ElemIds(list)
    /\ \A k \in DOMAIN items : items[k].elem # e

\* a thread enters DerivePublicKey / DerivePrivateKey / DeriveSymmetricKey
Call(t, a) ==
  /\ pc[t] = "idle"
  /\ calls < MaxCalls
  /\ calls' = calls + 1
  /\ args' = [args EXCEPT ![t] = a]
  /\ key' = [key EXCEPT ![t] = cacheKey(a)]
  /\ pc' = [pc EXCEPT ![t] = "cacheGet"]
  /\ UNCHANGED <<walletVars, keyDeriver, maxCacheSize, items, list, mu, val, ok, ret,
                 accessOrder, lastPut>>

\* a cacheGet that does not promote the entry it hits
CacheGetListNoMove(l, its, k) == l

\* the list after the lookup of cacheGet
CacheGetList(l, its, k) == IF k \in DOMAIN its THEN MoveToFront(l, its[k].elem) ELSE l

\* a cacheGet that returns the value of whichever entry it finds first
CacheGetResultAny(its, k) ==
  IF k \in DOMAIN its
    THEN [ok |-> TRUE, value |-> its[CHOOSE x \in DOMAIN its : x # k \/ DOMAIN its = {k}].value]
  ELSE [ok |-> FALSE, value |-> NoValue]

\* the (value, ok) pair cacheGet returns
CacheGetResult(its, k) ==
  IF k \in DOMAIN its THEN [ok |-> TRUE, value |-> its[k].value]
  ELSE [ok |-> FALSE, value |-> NoValue]

\* cacheGet: Lock, lookup, MoveToFront, return with the deferred Unlock (one
\* step: nothing else can touch the cache in between); then the caller's
\* type assertion decides between returning the hit and deriving
CacheGet(t) ==
  /\ pc[t] = "cacheGet"
  /\ mu = 0
  /\ LET r == CacheGetResult(items, key[t])
         hit == r.ok /\ r.value.kind = KindOf(key[t].method)
     IN /\ list' = CacheGetList(list, items, key[t])
        /\ val' = [val EXCEPT ![t] = r.value]
        /\ ok' = [ok EXCEPT ![t] = r.ok]
        /\ accessOrder' = IF r.ok THEN Touch(accessOrder, key[t]) ELSE accessOrder
        /\ ret' = [ret EXCEPT ![t] = IF hit THEN Ok(r.value) ELSE NoRet]
        /\ pc' = [pc EXCEPT ![t] = IF hit THEN "return" ELSE "derive"]
  /\ mu' = 0
  /\ UNCHANGED <<walletVars, keyDeriver, maxCacheSize, items, args, key, calls, lastPut>>

\* a Derive method that caches whatever the wrapped KeyDeriver returned
DeriveCachingErrors(t) ==
  /\ pc[t] = "derive"
  /\ val' = [val EXCEPT ![t] = Underlying(keyDeriver, args[t]).val]
  /\ pc' = [pc EXCEPT ![t] = "cacheSet"]
  /\ UNCHANGED <<walletVars, keyDeriver, maxCacheSize, items, list, mu, args, key, ok, ret,
                 calls, accessOrder, lastPut>>

\* the call on the wrapped KeyDeriver; an error is returned without caching
Derive(t) ==
  /\ pc[t] = "derive"
  /\ LET r == Underlying(keyDeriver, args[t]) IN
       IF IsOk(r)
         THEN /\ val' = [val EXCEPT ![t] = r.val]
              /\ pc' = [pc EXCEPT ![t] = "cacheSet"]
              /\ ret' = ret
         ELSE /\ val' = [val EXCEPT ![t] = NoValue]
              /\ pc' = [pc EXCEPT ![t] = "return"]
              /\ ret' = [ret EXCEPT ![t] = r]
  /\ UNCHANGED <<walletVars, keyDeriver, maxCacheSize, items, list, mu, args, key, ok, calls,
                 accessOrder, lastPut>>

\* cacheSet, key exists: Lock, update the value, MoveToFront, return (Unlock)
CacheSetExisting(t) ==
  /\ pc[t] = "cacheSet"
  /\ mu = 0
  /\ key[t] \in DOMAIN items
  /\ items' = [items EXCEPT ![key[t]].value = val[t]]
  /\ list' = MoveToFront(list, items[key[t]].elem)
  /\ accessOrder' = Touch(accessOrder, key[t])
  /\ lastPut' = (key[t] :> val[t]) @@ lastPut
  /\ mu' = 0
  /\ ret' = [ret EXCEPT ![t] = Ok(val[t])]
  /\ pc' = [pc EXCEPT ![t] = "return"]
  /\ UNCHANGED <<walletVars, keyDeriver, maxCacheSize, args, key, val, ok, calls>>

\* cacheSet, new key: Lock, elem := c.cache.list.PushFront(key)
CacheSetPushFront(t) ==
  /\ pc[t] = "cacheSet"
  /\ mu = 0
  /\ mu' = t
  /\ key[t] \notin DOMAIN items
  /\ list' = PushFront(list, FreshElem, key[t])
  /\ pc' = [pc EXCEPT ![t] = "cacheSetStore"]
  /\ UNCHANGED <<walletVars, keyDeriver, maxCacheSize, items, args, key, val, ok, ret, calls,
                 accessOrder, lastPut>>

\* cacheSet, new key: c.cache.items[key] = &cacheValue{value, elem}
CacheSetStore(t) ==
  /\ pc[t] = "cacheSetStore"
  /\ mu = t
  /\ items' = (key[t] :> [value |-> val[t], elem |-> list[1].id]) @@ items
  /\ accessOrder' = Touch(accessOrder, key[t])
  /\ lastPut' = (key[t] :> val[t]) @@ lastPut
  /\ pc' = [pc EXCEPT ![t] = "cacheSetEvict"]
  /\ UNCHANGED <<walletVars, keyDeriver, maxCacheSize, list, mu, args, key, val, ok, ret, calls>>

\* an eviction that starts one entry too late
EvictNeededLate(its, max) == Cardinality(DOMAIN its) > max + 1

\* the condition of "Evict if needed"
EvictNeeded(its, max) == Cardinality(DOMAIN its) > max

\* the element that the eviction removes: c.cache.list.Back()
Oldest(l) == l[Back(l)]

\* cacheSet, new key: evict if needed, return (Unlock)
CacheSetEvict(t) ==
  /\ pc[t] = "cacheSetEvict"
  /\ mu = t
  /\ IF EvictNeeded(items, maxCacheSize) /\ Back(list) # 0
       THEN /\ items' = [k \in DOMAIN items \ {Oldest(list).Value} |-> items[k]]
            /\ list' = Remove(list, Oldest(list).id)
            /\ accessOrder' = SelectSeq(accessOrder, LAMBDA x : x # Oldest(list).Value)
       ELSE /\ UNCHANGED <<items, list, accessOrder>>
  /\ mu' = 0
  /\ ret' = [ret EXCEPT ![t] = Ok(val[t])]
  /\ pc' = [pc EXCEPT ![t] = "return"]
  /\ UNCHANGED <<walletVars, keyDeriver, maxCacheSize, args, key, val, ok, calls, lastPut>>

\* the Derive method returns to its caller
Return(t) ==
  /\ pc[t] = "return"
  /\ pc' = [pc EXCEPT ![t] = "idle"]
  /\ args' = [args EXCEPT ![t] = NoKey]
  /\ key' = [key EXCEPT ![t] = NoKey]
  /\ val' = [val EXCEPT ![t] = NoValue]
  /\ ok' = [ok EXCEPT ![t] = FALSE]
  /\ ret' = [ret EXCEPT ![t] = NoRet]
  /\ UNCHANGED <<walletVars, keyDeriver, maxCacheSize, items, list, mu, calls,
                 accessOrder, lastPut>>

CacheNext ==
  \E t \in Threads :
    \/ \E a \in CallArgs : Call(t, a)
    \/ CacheGet(t)
    \/ Derive(t)
    \/ CacheSetExisting(t)
    \/ CacheSetPushFront(t)
    \/ CacheSetStore(t)
    \/ CacheSetEvict(t)
    \/ Return(t)

vars == <<cacheVars, walletVars>>

Spec == CacheInit /\ [][CacheNext]_vars

(***************************************************************************)
(* The ProtoWallets of two parties, and their KeyDerivers, at work: every  *)
(* call is one step; what a call produced is on the wire for the calls     *)
(* that are handed it. An exchange is one call that produces and one call  *)
(* that is handed the product, right after it was made; a new exchange     *)
(* starts on a free wire.                                                  *)
(***************************************************************************)
WalletCounterparties ==
  {Uninitialized, Self, Anyone} \cup {Other(IdentityKey(r)) : r \in RootKeys}

\* the contexts of the wallet calls: a valid one and one with a protocol
\* name that is too short
WalletContexts == {<<TestsProtocol, KeyID4>>, <<ShortProtocol, KeyID4>>}

SampleData == <<3, 1, 4, 1, 5, 9>>

\* the nonce Encrypt draws
SampleNonce == [i \in 1..NonceLen |-> (7 * i) % 256]

\* a byte string with its last byte changed
Tampered(b) == [b EXCEPT ![Len(b)] = (b[Len(b)] + 1) % 256]

\* the byte strings a caller can hand to Decrypt or VerifyHmac: what is on
\* the wire, as it is or tampered with
Received(kind) ==
  IF wire.kind = kind /\ wcall.op \in {"Encrypt", "CreateHmac"}
    THEN {wire.out.Bytes, Tampered(wire.out.Bytes)}
  ELSE {}

\* the signatures a caller can hand to VerifySignature: the one on the wire,
\* or none
ReceivedSignatures ==
  IF wire.kind = "signature" /\ wcall.op = "CreateSignature"
    THEN {wire.out.Signature, NoSignature}
  ELSE {}

\* the (data, hash) pairs of CreateSignature: the data, its hash, neither,
\* and a hash that is one byte short
Signables ==
  {<<SampleData, <<>>>>, <<<<>>, Sha256(SampleData)>>, <<<<>>, <<>>>>,
   <<<<>>, SubSeq(Sha256(SampleData), 1, HashLen - 1)>>}

\* the (data, hash) pairs a caller can hand to VerifySignature with a
\* signature: the pair that was signed, the data, or the hash of the data
Verifiables ==
  {<<wire.args.Data, wire.args.Hash>>, <<SampleData, <<>>>>, <<<<>>, Sha256(SampleData)>>}

\* the wire after a call that produces a ciphertext, a signature or an HMAC
Produced(kind, root, a, result) ==
  IF IsOk(result) THEN [kind |-> kind, root |-> root, args |-> a, out |-> result]
  ELSE NoWire

\* the call of an operation of the wallet of a root key
WalletCall(op, root, a) == [op |-> op, root |-> root, args |-> a]

WEncrypt(root, ctx, cp, data) ==
  LET a == WalletArgs(ctx[1], ctx[2], cp, data, <<>>, NoSignature, <<>>, FALSE,
                      SampleNonce)
  IN /\ wire = NoWire
     /\ wcall' = WalletCall("Encrypt", root, a)
     /\ wresult' = Encrypt(NewWallet(root), a)
     /\ wlog' = WalletCalls("Encrypt", NewWallet(root), a)
     /\ wire' = Produced("ciphertext", root, a, wresult')
     /\ UNCHANGED cacheVars

\* the caller is handed the ciphertext on the wire, as it is or tampered with
WDecrypt(root, ctx, cp) ==
  \E ciphertext \in Received("ciphertext") :
  LET a == WalletArgs(ctx[1], ctx[2], cp, ciphertext, <<>>, NoSignature, <<>>, FALSE,
                      <<>>)
  IN /\ wcall' = WalletCall("Decrypt", root, a)
     /\ wresult' = Decrypt(NewWallet(root), a)
     /\ wlog' = WalletCalls("Decrypt", NewWallet(root), a)
     /\ UNCHANGED <<wire, cacheVars>>

WCreateHmac(root, ctx, cp) ==
  LET a == WalletArgs(ctx[1], ctx[2], cp, SampleData, <<>>, NoSignature, <<>>, FALSE,
                      <<>>)
  IN /\ wire = NoWire
     /\ wcall' = WalletCall("CreateHmac", root, a)
     /\ wresult' = CreateHmac(NewWallet(root), a)
     /\ wlog' = WalletCalls("CreateHmac", NewWallet(root), a)
     /\ wire' = Produced("hmac", root, a, wresult')
     /\ UNCHANGED cacheVars

\* the caller is handed the HMAC on the wire, as it is or tampered with
WVerifyHmac(root, ctx, cp) ==
  \E hmac \in Received("hmac") :
  LET a == WalletArgs(ctx[1], ctx[2], cp, SampleData, <<>>, NoSignature, hmac, FALSE,
                      <<>>)
  IN /\ wcall' = WalletCall("VerifyHmac", root, a)
     /\ wresult' = VerifyHmac(NewWallet(root), a)
     /\ wlog' = WalletCalls("VerifyHmac", NewWallet(root), a)
     /\ UNCHANGED <<wire, cacheVars>>

WCreateSignature(root, ctx, cp, signable) ==
  LET a == WalletArgs(ctx[1], ctx[2], cp, signable[1], signable[2], NoSignature, <<>>,
                      FALSE, <<>>)
  IN /\ wire = NoWire
     /\ wcall' = WalletCall("CreateSignature", root, a)
     /\ wresult' = CreateSignature(NewWallet(root), a)
     /\ wlog' = WalletCalls("CreateSignature", NewWallet(root), a)
     /\ wire' = Produced("signature", root, a, wresult')
     /\ UNCHANGED cacheVars

\* the verifier is handed the signed data, or its hash, with the signature
WVerifySignature(root, ctx, cp) ==
  \E signature \in ReceivedSignatures, forSelf \in BOOLEAN, verifiable \in Verifiables :
  LET a == WalletArgs(ctx[1], ctx[2], cp, verifiable[1], verifiable[2], signature,
                      <<>>, forSelf, <<>>)
  IN /\ wcall' = WalletCall("VerifySignature", root, a)
     /\ wresult' = VerifySignature(NewWallet(root), a)
     /\ wlog' = WalletCalls("VerifySignature", NewWallet(root), a)
     /\ UNCHANGED <<wire, cacheVars>>

\* the key DeriveSymmetricKey returns, as bytes
SymmetricKeyResult(r) ==
  WalletResult(r.err, IF IsOk(r) THEN <<r.val>> ELSE <<>>, NoSignature, FALSE)

\* a direct call of KeyDeriver.DeriveSymmetricKey
WDeriveSymmetricKey(root, ctx, cp) ==
  LET a == WalletArgs(ctx[1], ctx[2], cp, <<>>, <<>>, NoSignature, <<>>, FALSE, <<>>)
  IN /\ wire = NoWire
     /\ wcall' = WalletCall("DeriveSymmetricKey", root, a)
     /\ wresult' = SymmetricKeyResult(KdDeriveSymmetricKey(NewKeyDeriver(root), ctx[1], ctx[2], cp))
     /\ wlog' = SymmetricKeyCalls(NewKeyDeriver(root), ctx[1], ctx[2], cp)
     /\ wire' = NoWire
     /\ UNCHANGED cacheVars

\* the arguments of NewProtoWallet: every Type and two that are not one, with
\* and without a private key and a KeyDeriver
ProtoWalletArgsSet ==
  {ProtoWalletArgs(type, privateKey, kd) :
     type \in {ProtoWalletArgsTypePrivateKey, ProtoWalletArgsTypeKeyDeriver,
               ProtoWalletArgsTypeAnyone, "", "cachedKeyDeriver"},
     privateKey \in {NilKeyDeriver.privateKey} \cup RootKeys,
     kd \in {NilKeyDeriver} \cup {NewKeyDeriver(k) : k \in RootKeys}}

\* a call of NewProtoWallet; what it returns is the result of the call
WNewProtoWallet(a) ==
  /\ wire = NoWire
  /\ wcall' = WalletCall("NewProtoWallet", a.PrivateKey, a)
  /\ wresult' = NewProtoWallet(a)
  /\ wlog' = <<>>
  /\ wire' = NoWire
  /\ UNCHANGED cacheVars

WalletNext ==
  \E root \in RootKeys, cp \in WalletCounterparties :
    \/ \E ctx \in WalletContexts : WEncrypt(root, ctx, cp, SampleData)
    \/ \E ctx \in WalletContexts : WDecrypt(root, ctx, cp)
    \/ \E ctx \in WalletContexts : WCreateHmac(root, ctx, cp)
    \/ \E ctx \in WalletContexts : WVerifyHmac(root, ctx, cp)
    \/ \E ctx \in WalletContexts, signable \in Signables :
         WCreateSignature(root, ctx, cp, signable)
    \/ \E ctx \in WalletContexts : WVerifySignature(root, ctx, cp)
    \/ \E ctx \in WalletContexts \cup {<<TestsProtocol, <<>>>>} :
         WDeriveSymmetricKey(root, ctx, cp)
    \/ \E a \in ProtoWalletArgsSet : WNewProtoWallet(a)

WalletSpec == CacheInit /\ [][WalletNext]_vars

(***************************************************************************)
(* The KeyDeriver and GetPublicKey called directly: every call is one      *)
(* step, from any state.                                                   *)
(***************************************************************************)
\* the contexts of the direct calls: those of the wallet calls, one with an
\* empty key ID and one with an empty protocol name
DeriveContexts ==
  WalletContexts \cup {<<TestsProtocol, <<>>>>, <<Protocol(2, <<>>), KeyID4>>,
                       <<Protocol(0, <<"H","e","l","l","o"," ">>), <<"5">>>>}

DDerivePublicKey(root, ctx, cp, forSelf) ==
  /\ wcall' = WalletCall("DerivePublicKey", root,
                         GetPublicKeyArgs(ctx[1], ctx[2], cp, FALSE, forSelf))
  /\ wresult' = SymmetricKeyResult(KdDerivePublicKey(NewKeyDeriver(root), ctx[1], ctx[2],
                                                     cp, forSelf))
  /\ wlog' = DeriveChildCalls(NewKeyDeriver(root), ctx[1], ctx[2], cp)
  /\ UNCHANGED <<wire, cacheVars>>

DDerivePrivateKey(root, ctx, cp) ==
  /\ wcall' = WalletCall("DerivePrivateKey", root,
                         GetPublicKeyArgs(ctx[1], ctx[2], cp, FALSE, FALSE))
  /\ wresult' = SymmetricKeyResult(KdDerivePrivateKey(NewKeyDeriver(root), ctx[1], ctx[2], cp))
  /\ wlog' = DeriveChildCalls(NewKeyDeriver(root), ctx[1], ctx[2], cp)
  /\ UNCHANGED <<wire, cacheVars>>

DGetPublicKey(root, ctx, cp, identityKey, forSelf) ==
  /\ wcall' = WalletCall("GetPublicKey", root,
                         GetPublicKeyArgs(ctx[1], ctx[2], cp, identityKey, forSelf))
  /\ wresult' = GetPublicKey(NewWallet(root), wcall'.args)
  /\ wlog' = GetPublicKeyCalls(wcall'.args)
  /\ UNCHANGED <<wire, cacheVars>>

\* a string of n characters c
Repeat(c, n) == [i \in 1..n |-> c]

\* the security levels, protocol names and key IDs computeInvoiceNumber is
\* called with: valid ones, and ones that break one rule or several
InvoiceLevels == {0 - 1, 0, 2, 3}

InvoiceNames ==
  {<<"t","e","s","t","s">>,
   <<" ","T","e","s","t","s"," ">>,
   <<"t","e","s","t">>,
   <<"a"," "," ","b">>,
   <<"d","o","u","b","l","e"," "," ","s","p","a","c","e">>,
   <<"t","e","_","s","t">>,
   <<"t","e","_"," "," ","s","t">>,
   <<"t","e","_","s","t">> \o ProtocolSuffix,
   <<"r","e","d","u","n","d","a","n","t">> \o ProtocolSuffix,
   Repeat("a", MaxProtocolLen),
   Repeat("a", MaxProtocolLen) \o <<" ">>,
   Repeat("a", MaxProtocolLen + 1),
   Repeat("a", MaxProtocolLen - 1) \o <<" "," ">> \o ProtocolSuffix,
   LinkagePrefix \o Repeat("a", MaxLinkageLen - Len(LinkagePrefix)),
   LinkagePrefix \o Repeat("a", MaxLinkageLen - Len(LinkagePrefix) + 1)}

InvoiceKeyIDs == {<<>>, KeyID4, Repeat("k", MaxKeyIDLen), Repeat("k", MaxKeyIDLen + 1)}

DComputeInvoiceNumber(level, name, keyID) ==
  /\ wcall' = WalletCall("computeInvoiceNumber", 2,
                         GetPublicKeyArgs(Protocol(level, name), keyID, Uninitialized,
                                          FALSE, FALSE))
  /\ wresult' = WalletResult(computeInvoiceNumber(Protocol(level, name), keyID).err,
                             computeInvoiceNumber(Protocol(level, name), keyID).val,
                             NoSignature, FALSE)
  /\ wlog' = <<>>
  /\ UNCHANGED <<wire, cacheVars>>

DeriveNext ==
  \/ \E root \in RootKeys, cp \in WalletCounterparties, ctx \in DeriveContexts :
       \/ \E forSelf \in BOOLEAN : DDerivePublicKey(root, ctx, cp, forSelf)
       \/ DDerivePrivateKey(root, ctx, cp)
       \/ \E identityKey \in BOOLEAN, forSelf \in BOOLEAN :
            DGetPublicKey(root, ctx, cp, identityKey, forSelf)
       \/ WDeriveSymmetricKey(root, ctx, cp)
  \/ \E level \in InvoiceLevels, name \in InvoiceNames, keyID \in InvoiceKeyIDs :
       DComputeInvoiceNumber(level, name, keyID)

DeriveSpec == CacheInit /\ [][DeriveNext]_vars

(***************************************************************************)
(* The wire codec.  A Go string is its bytes, so the string fields of the  *)
(* argument structures are byte strings here; the hexadecimal strings      *)
(* (scripts, txids) are sequences of characters.  An optional value (a nil *)
(* slice, a nil pointer) is the empty sequence, a present one the          *)
(* one-element sequence of its value.  Numbers stay below 2^31.            *)
(***************************************************************************)
None == <<>>

Some(v) == <<v>>

\* the n low bytes of v, little-endian
LEBytes(v, n) == [i \in 1..n |-> (v \div (256 ^ (i - 1))) % 256]

\* the largest number of the model: any larger one on the wire is read as it
MaxNumber == (2 ^ 30 - 1) * 2 + 1

\* low + 256 * high, up to MaxNumber
Shifted(low, high) ==
  IF high > (MaxNumber - low) \div 256 THEN MaxNumber ELSE low + 256 * high

\* the number of little-endian bytes b
RECURSIVE LEValue(_)
LEValue(b) == IF b = <<>> THEN 0 ELSE Shifted(b[1], LEValue(Tail(b)))

\* writeVarInt(0xFFFFFFFFFFFFFFFF): the marker of an absent value
AbsentVarInt == [i \in 1..9 |-> 255]

\* writer.writeVarInt; a negative v stands for 0xFFFFFFFFFFFFFFFF
WriteVarInt(v) ==
  IF v < 0 THEN AbsentVarInt
  ELSE IF v < 253 THEN <<v>>
  ELSE IF v <= 65535 THEN <<253>> \o LEBytes(v, 2)
  ELSE <<254>> \o LEBytes(v, 4)

\* what a read gives: the error, the value and the bytes not yet read
Read(err, v, rest) == [err |-> err, val |-> v, rest |-> rest]

EndOfData == <<"read past end of data">>

\* reader.readByte
ReadByte(buf) ==
  IF buf = <<>> THEN Read(EndOfData, 0, buf) ELSE Read(NoErr, buf[1], Tail(buf))

\* reader.readBytes
ReadBytes(buf, n) ==
  IF n < 0 \/ Len(buf) < n THEN Read(EndOfData, <<>>, buf)
  ELSE Read(NoErr, SubSeq(buf, 1, n), SubSeq(buf, n + 1, Len(buf)))

\* reader.readRemaining
ReadRemaining(buf) == Read(NoErr, buf, <<>>)

\* the value of the n bytes after the prefix of a varint
VarIntValue(b) == IF b = SubSeq(AbsentVarInt, 2, 9) THEN 0 - 1 ELSE LEValue(b)

\* the number of bytes after the first byte of a varint
VarIntSize(first) ==
  IF first < 253 THEN 0 ELSE IF first = 253 THEN 2 ELSE IF first = 254 THEN 4 ELSE 8

\* reader.readVarInt; 0xFFFFFFFFFFFFFFFF is read as -1
ReadVarInt(buf) ==
  IF buf = <<>> \/ Len(buf) < 1 + VarIntSize(buf[1]) THEN Read(EndOfData, 0, buf)
  ELSE IF buf[1] < 253 THEN Read(NoErr, buf[1], Tail(buf))
  ELSE Read(NoErr, VarIntValue(SubSeq(buf, 2, 1 + VarIntSize(buf[1]))),
            SubSeq(buf, 2 + VarIntSize(buf[1]), Len(buf)))

HexDigits == Digits \o SubSeq(Lower, 1, 6)

\* the value of a hexadecimal digit of either case, -1 for any other character
HexValue(c) == IndexOf(HexDigits, ToLower(<<c>>)[1]) - 1

\* hex.DecodeString
HexDecode(s) ==
  IF Len(s) % 2 = 1 \/ \E i \in DOMAIN s : HexValue(s[i]) < 0
  THEN Fail(<<"encoding/hex: invalid string">>, <<>>)
  ELSE Ok([i \in 1..(Len(s) \div 2) |-> 16 * HexValue(s[2 * i - 1]) + HexValue(s[2 * i])])

\* hex.EncodeToString
HexEncode(b) ==
  [i \in 1..(2 * Len(b)) |->
     IF i % 2 = 1 THEN HexDigits[(b[(i + 1) \div 2] \div 16) + 1]
     ELSE HexDigits[(b[i \div 2] % 16) + 1]]

TxidLen == 32

OutpointLen == 36

\* an outpoint: the txid in hexadecimal and the output index
Outpoint(txid, index) == [Txid |-> txid, Index |-> index]

\* encodeOutpoint: the 32 bytes of the txid, then the index in 4 bytes
EncodeOutpoint(outpoint) ==
  IF ~IsOk(HexDecode(outpoint.Txid)) \/ Len(outpoint.Txid) # 2 * TxidLen
  THEN Fail(<<"invalid outpoint">>, <<>>)
  ELSE Ok(HexDecode(outpoint.Txid).val \o LEBytes(outpoint.Index, OutpointLen - TxidLen))

\* decodeOutpoint
DecodeOutpoint(b) ==
  IF Len(b) # OutpointLen THEN Fail(<<"invalid outpoint data length">>, Outpoint(<<>>, 0))
  ELSE Ok(Outpoint(HexEncode(SubSeq(b, 1, TxidLen)),
                   LEValue(SubSeq(b, TxidLen + 1, OutpointLen))))

(***************************************************************************)
(* SerializeCreateActionArgs.  The writer is a result: the bytes written   *)
(* so far, or the error the serialiser returned with.                      *)
(***************************************************************************)
CreateActionInput(outpoint, unlockingScript, unlockingScriptLength, inputDescription,
                  sequenceNumber) ==
  [Outpoint |-> outpoint, UnlockingScript |-> unlockingScript,
   UnlockingScriptLength |-> unlockingScriptLength,
   InputDescription |-> inputDescription, SequenceNumber |-> sequenceNumber]

CreateActionOutput(lockingScript, satoshis, outputDescription, basket, customInstructions,
                   tags) ==
  [LockingScript |-> lockingScript, Satoshis |-> satoshis,
   OutputDescription |-> outputDescription, Basket |-> basket,
   CustomInstructions |-> customInstructions, Tags |-> tags]

CreateActionOptions(signAndProcess, acceptDelayedBroadcast, trustSelf, knownTxids,
                    returnTXIDOnly, noSend, noSendChange, sendWith, randomizeOutputs) ==
  [SignAndProcess |-> signAndProcess, AcceptDelayedBroadcast |-> acceptDelayedBroadcast,
   TrustSelf |-> trustSelf, KnownTxids |-> knownTxids, ReturnTXIDOnly |-> returnTXIDOnly,
   NoSend |-> noSend, NoSendChange |-> noSendChange, SendWith |-> sendWith,
   RandomizeOutputs |-> randomizeOutputs]

CreateActionArgs(description, inputBEEF, inputs, outputs, lockTime, version, labels,
                 options) ==
  [Description |-> description, InputBEEF |-> inputBEEF, Inputs |-> inputs,
   Outputs |-> outputs, LockTime |-> lockTime, Version |-> version, Labels |-> labels,
   Options |-> options]

\* the writer after writing the bytes b
Written(w, b) == IF IsOk(w) THEN Ok(w.val \o b) ELSE w

\* the writer after writing the bytes of r, or returning with r's error
\* under the messages msg
WrittenOr(w, r, msg) ==
  IF ~IsOk(w) THEN w ELSE IF IsOk(r) THEN Ok(w.val \o r.val) ELSE Fail(msg \o r.err, <<>>)

\* writeVarInt(len(b)); writeBytes(b)
WriteString(b) == WriteVarInt(Len(b)) \o b

\* the same for the bytes of r
WithLength(r) == IF IsOk(r) THEN Ok(WriteString(r.val)) ELSE r

\* a string, or -1 for the empty one
WriteOptionalString(b) == IF b # <<>> THEN WriteString(b) ELSE AbsentVarInt

\* a number, or -1 for zero
WriteOptionalNumber(n) == IF n > 0 THEN WriteVarInt(n) ELSE AbsentVarInt

\* a *bool: 1, 0, or 0xFF for nil
WriteOptionalBool(o) == IF o # None THEN (IF o[1] THEN <<1>> ELSE <<0>>) ELSE <<255>>

\* the unlocking script of an input, or -1 and the unlocking script length
WriteUnlockingScript(w, input) ==
  IF input.UnlockingScript # <<>>
  THEN WrittenOr(w, WithLength(HexDecode(input.UnlockingScript)),
                 <<"error decoding unlocking script">>)
  ELSE Written(w, AbsentVarInt \o WriteVarInt(input.UnlockingScriptLength))

RECURSIVE WriteItem(_, _, _)
RECURSIVE WriteItems(_, _, _)
\* the count and the items of a slice, or -1 for nil
WriteSlice(w, kind, o) ==
  IF o # None THEN WriteItems(Written(w, WriteVarInt(Len(o[1]))), kind, o[1])
  ELSE Written(w, AbsentVarInt)

\* the body of the loop over args.Inputs
WriteInput(w, input) ==
  Written(Written(WriteUnlockingScript(WrittenOr(w, EncodeOutpoint(input.Outpoint), <<>>),
                                       input),
                  WriteString(input.InputDescription)),
          WriteOptionalNumber(input.SequenceNumber))

\* the body of the loop over args.Outputs
WriteOutput(w, output) ==
  WriteSlice(Written(WrittenOr(w, WithLength(HexDecode(output.LockingScript)),
                               <<"error decoding locking script">>),
                     WriteVarInt(output.Satoshis) \o WriteString(output.OutputDescription)
                       \o WriteOptionalString(output.Basket)
                       \o WriteOptionalString(output.CustomInstructions)),
             "tag", output.Tags)

WriteItems(w, kind, elems) ==
  IF elems = <<>> \/ ~IsOk(w) THEN w
  ELSE WriteItems(WriteItem(w, kind, Head(elems)), kind, Tail(elems))

\* TrustSelf: 1 for "known", 0xFF for anything else
WriteTrustSelf(trustSelf) == IF trustSelf = "known" THEN <<1>> ELSE <<255>>

\* the options block after its presence byte
WriteOptions(w, options) ==
  Written(
    WriteSlice(
      WriteSlice(
        Written(
          WriteSlice(
            Written(w, WriteOptionalBool(options.SignAndProcess)
                         \o WriteOptionalBool(options.AcceptDelayedBroadcast)
                         \o WriteTrustSelf(options.TrustSelf)),
            "knownTxid", options.KnownTxids),
          WriteOptionalBool(options.ReturnTXIDOnly) \o WriteOptionalBool(options.NoSend)),
        "noSendChange", options.NoSendChange),
      "sendWith", options.SendWith),
    WriteOptionalBool(options.RandomizeOutputs))

\* InputBEEF: its length and bytes, or -1 for nil
WriteInputBEEF(o) == IF o # None THEN WriteString(o[1]) ELSE AbsentVarInt

\* the arguments up to the labels
WriteBeforeOptions(a) ==
  WriteSlice(
    Written(
      WriteSlice(
        WriteSlice(Ok(WriteString(a.Description) \o WriteInputBEEF(a.InputBEEF)),
                   "input", a.Inputs),
        "output", a.Outputs),
      WriteOptionalNumber(a.LockTime) \o WriteOptionalNumber(a.Version)),
    "label", a.Labels)

SerializeCreateActionArgs(a) ==
  IF a.Options # None
  THEN WriteOptions(Written(WriteBeforeOptions(a), <<1>>), a.Options[1])
  ELSE Written(WriteBeforeOptions(a), <<0>>)

(***************************************************************************)
(* DeserializeCreateActionArgs.  The state of the parse: the error it      *)
(* returned with, the value last read, the bytes not yet read, the input,  *)
(* output or options being filled, and args.                               *)
(***************************************************************************)
Parse(data, a) == [err |-> NoErr, val |-> 0, rest |-> data, item |-> 0, args |-> a]

\* the parse after the read r of s.rest, or returning with msg
Step(s, r, msg) ==
  IF ~IsOk(s) THEN s
  ELSE IF ~IsOk(r) THEN [s EXCEPT !.err = <<msg>> \o r.err]
  ELSE [s EXCEPT !.val = r.val, !.rest = r.rest]

NextVarInt(s, msg) == Step(s, ReadVarInt(s.rest), msg)

NextByte(s, msg) == Step(s, ReadByte(s.rest), msg)

NextBytes(s, n, msg) == Step(s, ReadBytes(s.rest, n), msg)

\* F of the one element of S, which is evaluated before F is applied: the
\* statements of a function run one after the other
Then(F(_), S) == CHOOSE r \in {F(s) : s \in S} : TRUE

\* the parse with v as the value read
Valued(s, v) == IF IsOk(s) THEN [s EXCEPT !.val = v] ELSE s

\* the value read, assigned to a field of args or of the item being filled
ToArg(s, field) == IF IsOk(s) THEN [s EXCEPT !.args[field] = s.val] ELSE s

ToItem(s, field) == IF IsOk(s) THEN [s EXCEPT !.item[field] = s.val] ELSE s

\* the item filled, as the value read
ItemOf(s) == Valued(s, s.item)

\* the value read, as a present optional value
Present(s) == Valued(s, Some(s.val))

\* the parse starting to fill item
Filling(s, item) == IF IsOk(s) THEN [s EXCEPT !.item = item] ELSE s

\* s.val is -1: the value is absent
IsAbsent(s) == IsOk(s) /\ s.val = 0 - 1

\* a length s.val and as many bytes
LengthAndBytes(s, msg) == NextBytes(s, s.val, msg)

\* the bytes read, as a Go string in hexadecimal
HexEncoded(s) == Valued(s, HexEncode(s.val))

\* a length and a string, read as the string
ReadStringField(s, lenMsg, msg) == LengthAndBytes(NextVarInt(s, lenMsg), msg)

\* after a length: the string, or the empty string for -1
OptionalStringOf(s, msg) == IF IsAbsent(s) THEN Valued(s, <<>>) ELSE LengthAndBytes(s, msg)

\* after a number: 0 for -1
OptionalNumberOf(s) == IF IsAbsent(s) THEN Valued(s, 0) ELSE s

\* after a flag byte: nil for 0xFF, else whether it is 1
OptionalBoolOf(s) ==
  IF IsOk(s) /\ s.val = 255 THEN Valued(s, None) ELSE Valued(s, Some(s.val = 1))

ReadOptionalBool(s, msg) == OptionalBoolOf(NextByte(s, msg))

\* after the TrustSelf flag
TrustSelfOf(s) == Valued(s, IF s.val = 1 THEN "known" ELSE "")

\* the outpoint decoded from the 36 bytes read
OutpointOf(s, msg) ==
  IF ~IsOk(s) THEN s
  ELSE IF ~IsOk(DecodeOutpoint(s.val))
  THEN [s EXCEPT !.err = <<msg>> \o DecodeOutpoint(s.val).err]
  ELSE Valued(s, DecodeOutpoint(s.val).val)

RECURSIVE ReadItem(_, _)
RECURSIVE ReadItems(_, _, _, _)
\* the loop appending the item read
ReadItemsFrom(s, kind, n, acc) == ReadItems(s, kind, n, Append(acc, s.val))

\* a loop of n rounds: the slice it makes
ReadItems(s, kind, n, acc) ==
  IF ~IsOk(s) THEN s
  ELSE IF n = 0 THEN Valued(s, Some(acc))
  ELSE ReadItemsFrom(ReadItem(s, kind), kind, n - 1, acc)

\* after a count: nil for -1, else the slice of the items
SliceOf(s, kind) == IF IsAbsent(s) THEN Valued(s, None) ELSE ReadItems(s, kind, s.val, <<>>)

\* after the unlocking script length: the script, or the length value
UnlockingScriptOf(s) ==
  IF IsAbsent(s)
  THEN ToItem(NextVarInt(s, "error reading unlocking script length value"),
              "UnlockingScriptLength")
  ELSE ToItem(HexEncoded(LengthAndBytes(s, "error reading unlocking script")),
              "UnlockingScript")

\* the body of the loop over the inputs
ReadInput(s) ==
  ToItem(
    OptionalNumberOf(NextVarInt(
      ToItem(
        ReadStringField(
          UnlockingScriptOf(NextVarInt(
            ToItem(
              OutpointOf(NextBytes(Filling(s, CreateActionInput(Outpoint(<<>>, 0), <<>>, 0,
                                                                <<>>, 0)),
                                   OutpointLen, "error reading outpoint"),
                         "error decoding outpoint"),
              "Outpoint"),
            "error reading unlocking script length")),
          "error reading input description length", "error reading input description"),
        "InputDescription"),
      "error reading sequence number")),
    "SequenceNumber")

\* the body of the loop over the outputs
ReadOutput(s) ==
  ToItem(
    SliceOf(NextVarInt(
      ToItem(
        OptionalStringOf(NextVarInt(
          ToItem(
            OptionalStringOf(NextVarInt(
              ToItem(
                ReadStringField(
                  ToItem(
                    NextVarInt(
                      ToItem(
                        HexEncoded(ReadStringField(
                          Filling(s, CreateActionOutput(<<>>, 0, <<>>, <<>>, <<>>, None)),
                          "error reading locking script length",
                          "error reading locking script")),
                        "LockingScript"),
                      "error reading satoshis"),
                    "Satoshis"),
                  "error reading output description length",
                  "error reading output description"),
                "OutputDescription"),
              "error reading basket length"), "error reading basket"),
            "Basket"),
          "error reading custom instructions length"),
          "error reading custom instructions"),
        "CustomInstructions"),
      "error reading tags length"), "tag"),
    "Tags")

\* the options block after its presence byte
ReadOptions(s) ==
  ToItem(
    ReadOptionalBool(
      ToItem(
        SliceOf(NextVarInt(
          ToItem(
            SliceOf(NextVarInt(
              ToItem(
                ReadOptionalBool(
                  ToItem(
                    ReadOptionalBool(
                      ToItem(
                        SliceOf(NextVarInt(
                          ToItem(
                            TrustSelfOf(NextByte(
                              ToItem(
                                ReadOptionalBool(
                                  ToItem(
                                    ReadOptionalBool(
                                      Filling(s, CreateActionOptions(None, None, "", None,
                                                                     None, None, None, None,
                                                                     None)),
                                      "error reading signAndProcess flag"),
                                    "SignAndProcess"),
                                  "error reading acceptDelayedBroadcast flag"),
                                "AcceptDelayedBroadcast"),
                              "error reading trustSelf flag")),
                            "TrustSelf"),
                          "error reading knownTxids length"), "knownTxid"),
                        "KnownTxids"),
                      "error reading returnTXIDOnly flag"),
                    "ReturnTXIDOnly"),
                  "error reading noSend flag"),
                "NoSend"),
              "error reading noSendChange length"), "noSendChange"),
            "NoSendChange"),
          "error reading sendWith length"), "sendWith"),
        "SendWith"),
      "error reading randomizeOutputs flag"),
    "RandomizeOutputs")

\* after the options present flag
OptionsOf(s) ==
  IF IsOk(s) /\ s.val = 1 THEN ToArg(Present(ItemOf(ReadOptions(s))), "Options") ELSE s

\* InputBEEF after its length: nil for -1
InputBEEFOf(s) ==
  IF IsAbsent(s) THEN s
  ELSE ToArg(Present(LengthAndBytes(s, "error reading input BEEF")), "InputBEEF")

\* the parse of the whole message
ParseCreateActionArgs(s) ==
  OptionsOf(NextByte(
    ToArg(
      SliceOf(NextVarInt(
        ToArg(
          OptionalNumberOf(NextVarInt(
            ToArg(
              OptionalNumberOf(NextVarInt(
                ToArg(
                  SliceOf(NextVarInt(
                    ToArg(
                      SliceOf(NextVarInt(
                        InputBEEFOf(NextVarInt(
                          ToArg(
                            ReadStringField(s, "error reading description length",
                                            "error reading description"),
                            "Description"),
                          "error reading input BEEF length")),
                        "error reading inputs length"), "input"),
                      "Inputs"),
                    "error reading outputs length"), "output"),
                  "Outputs"),
                "error reading lockTime")),
              "LockTime"),
            "error reading version")),
          "Version"),
        "error reading labels length"), "label"),
      "Labels"),
    "error reading options present flag"))

NoCreateActionArgs == CreateActionArgs(<<>>, None, None, None, 0, 0, None, None)

\* the result of a deserialiser: the arguments, or nil and the error
Parsed(s, nil) == IF IsOk(s) THEN Ok(s.args) ELSE Fail(s.err, nil)

DeserializeCreateActionArgs(data) ==
  IF Len(data) = 0 THEN Fail(<<"empty message">>, NoCreateActionArgs)
  ELSE Parsed(ParseCreateActionArgs(Parse(data, NoCreateActionArgs)), NoCreateActionArgs)

(***************************************************************************)
(* The request frame                                                       *)
(***************************************************************************)
RequestFrame(call, originator, params) ==
  [Call |-> call, Originator |-> originator, Params |-> params]

NoRequestFrame == RequestFrame(0, <<>>, <<>>)

\* byte(n): the low eight bits
Byte(n) == n % 256

\* a frame without the originator-length byte
WriteRequestFrameNoLength(requestFrame) ==
  <<requestFrame.Call>> \o requestFrame.Originator \o requestFrame.Params

WriteRequestFrame(requestFrame) ==
  <<requestFrame.Call, Byte(Len(requestFrame.Originator))>> \o requestFrame.Originator
    \o (IF Len(requestFrame.Params) > 0 THEN requestFrame.Params ELSE <<>>)

NextRemaining(s) == Step(s, ReadRemaining(s.rest), "")

ReadRequestFrame(data) ==
  Parsed(
    ToArg(
      NextRemaining(
        ToArg(
          LengthAndBytes(
            NextByte(
              ToArg(NextByte(Parse(data, NoRequestFrame), "error reading call byte"), "Call"),
              "error reading originator length"),
            "error reading originator"),
          "Originator")),
      "Params"),
    NoRequestFrame)

(***************************************************************************)
(* The result frame                                                        *)
(***************************************************************************)
\* wallet.Error
WireError(code, message, stack) == [Code |-> code, Message |-> message, Stack |-> stack]

NoWireError == WireError(0, <<>>, <<>>)

\* what ReadResultFrame returns: the result bytes, or an error, which is a
\* *wallet.Error (Error) or a failed read (err alone)
ResultRead(result, e, walletError) == [err |-> e, val |-> result, Error |-> walletError]

\* a frame whose status byte is always 0
WriteResultFrameAsSuccess(result, e) ==
  IF e # None
    THEN <<0>> \o WriteVarInt(Len(e[1].Message)) \o e[1].Message
           \o WriteVarInt(Len(e[1].Stack)) \o e[1].Stack
    ELSE <<0>> \o (IF Len(result) > 0 THEN result ELSE <<>>)

WriteResultFrame(result, e) ==
  IF e # None
    THEN <<e[1].Code>> \o WriteVarInt(Len(e[1].Message)) \o e[1].Message
           \o WriteVarInt(Len(e[1].Stack)) \o e[1].Stack
    ELSE <<0>> \o (IF Len(result) > 0 THEN result ELSE <<>>)

\* the message and the stack trace read after the error byte
ReadWalletError(s) ==
  ToArg(
    ReadStringField(
      ToArg(
        ReadStringField(ToArg(s, "Code"),
                        "error reading error message length", "error reading error message"),
        "Message"),
      "error reading stack trace length", "error reading stack trace"),
    "Stack")

\* the return of ReadResultFrame after the reads of the error branch
WalletErrorRead(s) ==
  IF IsOk(s) THEN ResultRead(<<>>, <<"wallet error">>, Some(s.args))
  ELSE ResultRead(<<>>, s.err, None)

\* the return of ReadResultFrame after the read of the error byte
AfterErrorByte(s) ==
  IF ~IsOk(s) THEN ResultRead(<<>>, s.err, None)
  ELSE IF s.val # 0 THEN WalletErrorRead(ReadWalletError(s))
  ELSE ResultRead(ReadRemaining(s.rest).val, NoErr, None)

ReadResultFrame(data) ==
  AfterErrorByte(NextByte(Parse(data, NoWireError), "error reading error byte"))

(***************************************************************************)
(* The serialisers built on util.Writer and util.ReaderHoldError: the      *)
(* reader holds its first error, r.Err, and reads zero values after it.    *)
(***************************************************************************)
\* Writer.WriteStringSlice
WriteStringSlice(o) == WriteSlice(Ok(<<>>), "label", o).val

\* r.Err: the error the reader holds
HeldError(s) == <<s.err[Len(s.err)]>>

\* a return on r.Err under msg, unless the deserialiser has returned before
Returned(s, msg) ==
  IF ~IsOk(s) /\ s.err[1] = "" THEN [s EXCEPT !.err = <<msg>> \o HeldError(s)] ELSE s

\* Reader.ReadVarInt, ReadByte, ReadBytes, ReadString, ReadOptionalBool,
\* ReadOptionalUint32, ReadStringSlice
HeldVarInt(s) == NextVarInt(s, "")

HeldByte(s) == NextByte(s, "")

HeldBytes(s) == LengthAndBytes(HeldVarInt(s), "")

HeldString(s) == OptionalStringOf(HeldVarInt(s), "")

HeldOptionalBool(s) == ReadOptionalBool(s, "")

HeldOptionalUint32(s) == OptionalNumberOf(HeldVarInt(s))

HeldStringSlice(s) == SliceOf(HeldVarInt(s), "string")

\* Reader.CheckComplete: bytes left over are an error
CheckComplete(s) ==
  IF IsOk(s) /\ s.rest # <<>> THEN [s EXCEPT !.err = <<"", "unexpected trailing bytes">>]
  ELSE s

\* ---- CreateSignatureArgs ----
CreateSignatureArgs(protocolID, keyID, counterparty, privileged, privilegedReason, data,
                    hashToDirectlySign, seekPermission) ==
  [ProtocolID |-> protocolID, KeyID |-> keyID, Counterparty |-> counterparty,
   Privileged |-> privileged, PrivilegedReason |-> privilegedReason, Data |-> data,
   HashToDirectlySign |-> hashToDirectlySign, SeekPermission |-> seekPermission]

NoCreateSignatureArgs ==
  CreateSignatureArgs([SecurityLevel |-> 0, Protocol |-> <<>>], <<>>,
                      [Type |-> CounterpartyUninitialized, Counterparty |-> <<>>],
                      FALSE, <<>>, None, <<>>, FALSE)

\* a compressed public key: a prefix byte and the 32 bytes of X
PubKeyLen == 1 + HashLen

\* encodeKeyRelatedParams: protocol, key ID, counterparty, privileged and
\* its reason
EncodeKeyRelatedParams(params) ==
  IF params.Counterparty.Type = CounterpartyTypeOther
     /\ Len(params.Counterparty.Counterparty) # PubKeyLen
  THEN Fail(<<"counterparty is required for counterparty type other">>, <<>>)
  ELSE Ok(<<params.ProtocolID.SecurityLevel>> \o WriteString(params.ProtocolID.Protocol)
            \o WriteString(params.KeyID)
            \o <<params.Counterparty.Type>>
            \o (IF params.Counterparty.Type = CounterpartyTypeOther
                THEN params.Counterparty.Counterparty ELSE <<>>)
            \o WriteOptionalBool(Some(params.Privileged))
            \o WriteOptionalString(params.PrivilegedReason))

\* the counterparty after its tag: the public key of another party
CounterpartyOf(s) ==
  IF IsOk(s) /\ s.val = CounterpartyTypeOther
  THEN ToItem(NextBytes(ToItem(s, "Type"), PubKeyLen, ""), "Counterparty")
  ELSE ToItem(s, "Type")

\* a *bool read as a bool
ReadOptionalBoolAsBool(s) == Valued(s, s.val # None /\ s.val[1])

\* decodeKeyRelatedParams
DecodeKeyRelatedParams(s) ==
  ToArg(
    HeldString(
      ToArg(
        ReadOptionalBoolAsBool(HeldOptionalBool(
          ToArg(
            ItemOf(CounterpartyOf(HeldByte(
              Filling(
                ToArg(
                  HeldBytes(
                    ToArg(
                      ItemOf(ToItem(HeldBytes(ToItem(HeldByte(
                               Filling(s, [SecurityLevel |-> 0, Protocol |-> <<>>])),
                               "SecurityLevel")), "Protocol")),
                      "ProtocolID")),
                  "KeyID"),
                [Type |-> CounterpartyUninitialized, Counterparty |-> <<>>])))),
            "Counterparty"))),
        "Privileged")),
    "PrivilegedReason")

\* a serialiser that writes the data without its length
SerializeCreateSignatureArgsNoLength(a) ==
  Written(WrittenOr(Ok(<<>>), EncodeKeyRelatedParams(a), <<"error encoding key params">>),
          (IF a.Data # None THEN <<1>> \o a.Data[1]
           ELSE <<2>> \o a.HashToDirectlySign)
            \o WriteOptionalBool(Some(a.SeekPermission)))

SerializeCreateSignatureArgs(a) ==
  Written(WrittenOr(Ok(<<>>), EncodeKeyRelatedParams(a), <<"error encoding key params">>),
          (IF a.Data # None THEN <<1>> \o WriteString(a.Data[1])
           ELSE <<2>> \o a.HashToDirectlySign)
            \o WriteOptionalBool(Some(a.SeekPermission)))

\* the data type flag: a reader holding an error reads 0
DataTypeFlagOf(s) ==
  IF IsOk(s) /\ ~IsOk(HeldByte(s)) THEN [s EXCEPT !.err = <<"invalid data type flag">>]
  ELSE HeldByte(s)

\* after the data type flag: the data or the hash
DataOrHashOf(s) ==
  IF ~IsOk(s) THEN s
  ELSE IF s.val = 1 THEN ToArg(Present(HeldBytes(s)), "Data")
  ELSE IF s.val = 2 THEN ToArg(NextBytes(s, HashLen, ""), "HashToDirectlySign")
  ELSE [s EXCEPT !.err = <<"invalid data type flag">>]

DeserializeCreateSignatureArgs(data) ==
  Parsed(
    Returned(
      ToArg(
        ReadOptionalBoolAsBool(HeldOptionalBool(
          DataOrHashOf(DataTypeFlagOf(
            Returned(DecodeKeyRelatedParams(Parse(data, NoCreateSignatureArgs)),
                     "error decoding key params"))))),
        "SeekPermission"),
      "error deserializing CreateSignature args"),
    NoCreateSignatureArgs)

\* ---- ListActionsArgs ----
ListActionsArgs(labels, labelQueryMode, includeLabels, includeInputs,
                includeInputSourceLockingScripts, includeInputUnlockingScripts,
                includeOutputs, includeOutputLockingScripts, limit, offset,
                seekPermission) ==
  [Labels |-> labels, LabelQueryMode |-> labelQueryMode, IncludeLabels |-> includeLabels,
   IncludeInputs |-> includeInputs,
   IncludeInputSourceLockingScripts |-> includeInputSourceLockingScripts,
   IncludeInputUnlockingScripts |-> includeInputUnlockingScripts,
   IncludeOutputs |-> includeOutputs,
   IncludeOutputLockingScripts |-> includeOutputLockingScripts, Limit |-> limit,
   Offset |-> offset, SeekPermission |-> seekPermission]

NoListActionsArgs ==
  ListActionsArgs(None, "", None, None, None, None, None, None, 0, 0, None)

\* the byte of a label query mode
LabelQueryModeByte(labelQueryMode) ==
  CASE labelQueryMode = "any" -> <<1>>
    [] labelQueryMode = "all" -> <<2>>
    [] OTHER -> <<255>>

SerializeListActionsArgs(a) ==
  IF a.LabelQueryMode \notin {"any", "all", ""}
  THEN Fail(<<"invalid label query mode">>, <<>>)
  ELSE Ok(WriteStringSlice(a.Labels) \o LabelQueryModeByte(a.LabelQueryMode)
            \o WriteOptionalBool(a.IncludeLabels) \o WriteOptionalBool(a.IncludeInputs)
            \o WriteOptionalBool(a.IncludeInputSourceLockingScripts)
            \o WriteOptionalBool(a.IncludeInputUnlockingScripts)
            \o WriteOptionalBool(a.IncludeOutputs)
            \o WriteOptionalBool(a.IncludeOutputLockingScripts)
            \o WriteOptionalNumber(a.Limit) \o WriteOptionalNumber(a.Offset)
            \o WriteOptionalBool(a.SeekPermission))

\* the label query mode of the byte read: a reader holding an error reads 0
LabelQueryModeOf(s) ==
  IF IsOk(s) /\ s.val \in {1, 2, 255}
  THEN Valued(s, IF s.val = 1 THEN "any" ELSE IF s.val = 2 THEN "all" ELSE "")
  ELSE [s EXCEPT !.err = <<"invalid label query mode byte">>]

\* the include options of the labels and the inputs
ReadIncludeInputs(s) ==
  ToArg(HeldOptionalBool(
    ToArg(HeldOptionalBool(
      ToArg(HeldOptionalBool(
        ToArg(HeldOptionalBool(s), "IncludeLabels")),
        "IncludeInputs")),
      "IncludeInputSourceLockingScripts")),
    "IncludeInputUnlockingScripts")

\* the include options of the outputs
ReadIncludeOutputs(s) ==
  ToArg(HeldOptionalBool(
    ToArg(HeldOptionalBool(s), "IncludeOutputs")),
    "IncludeOutputLockingScripts")

\* the include options
ReadIncludeOptions(s) == Then(ReadIncludeOutputs, {ReadIncludeInputs(s)})

\* the labels and the label query mode
ReadLabels(s) ==
  ToArg(LabelQueryModeOf(HeldByte(ToArg(HeldStringSlice(s), "Labels"))), "LabelQueryMode")

\* the limit, the offset and the permission flag
ReadLimits(s) ==
  ToArg(HeldOptionalBool(
    ToArg(HeldOptionalUint32(
      ToArg(HeldOptionalUint32(s), "Limit")),
      "Offset")),
    "SeekPermission")

DeserializeListActionsArgs(data) ==
  Parsed(
    Returned(
      Then(ReadLimits,
           {Then(ReadIncludeOptions, {ReadLabels(Parse(data, NoListActionsArgs))})}),
      "error reading list action args"),
    NoListActionsArgs)

\* ---- InternalizeActionArgs ----
Payment(derivationPrefix, derivationSuffix, senderIdentityKey) ==
  [DerivationPrefix |-> derivationPrefix, DerivationSuffix |-> derivationSuffix,
   SenderIdentityKey |-> senderIdentityKey]

BasketInsertion(basket, customInstructions, tags) ==
  [Basket |-> basket, CustomInstructions |-> customInstructions, Tags |-> tags]

InternalizeOutput(outputIndex, protocol, paymentRemittance, insertionRemittance) ==
  [OutputIndex |-> outputIndex, Protocol |-> protocol,
   PaymentRemittance |-> paymentRemittance, InsertionRemittance |-> insertionRemittance]

InternalizeActionArgs(tx, outputs, description, labels, seekPermission) ==
  [Tx |-> tx, Outputs |-> outputs, Description |-> description, Labels |-> labels,
   SeekPermission |-> seekPermission]

NoInternalizeActionArgs == InternalizeActionArgs(<<>>, <<>>, <<>>, None, None)

\* "wallet payment" and "basket insertion"
InternalizeProtocolWalletPayment ==
  <<119, 97, 108, 108, 101, 116, 32, 112, 97, 121, 109, 101, 110, 116>>

InternalizeProtocolBasketInsertion ==
  <<98, 97, 115, 107, 101, 116, 32, 105, 110, 115, 101, 114, 116, 105, 111, 110>>

\* the body of the loop over args.Outputs
WriteInternalizeOutput(output) ==
  WriteVarInt(output.OutputIndex) \o WriteString(output.Protocol)
    \o (IF output.PaymentRemittance # None
        THEN <<1>> \o WriteString(output.PaymentRemittance[1].DerivationPrefix)
               \o WriteString(output.PaymentRemittance[1].DerivationSuffix)
               \o WriteString(output.PaymentRemittance[1].SenderIdentityKey)
        ELSE <<0>>)
    \o (IF output.InsertionRemittance # None
        THEN <<1>> \o WriteString(output.InsertionRemittance[1].Basket)
               \o WriteOptionalString(output.InsertionRemittance[1].CustomInstructions)
               \o WriteStringSlice(output.InsertionRemittance[1].Tags)
        ELSE <<0>>)

\* a serialiser that leaves the seekPermission byte out
SerializeInternalizeActionArgsNoSeekPermission(a) ==
  Written(WriteItems(Ok(WriteString(a.Tx) \o WriteVarInt(Len(a.Outputs))),
                     "internalizeOutput", a.Outputs),
          WriteString(a.Description) \o WriteStringSlice(a.Labels))

SerializeInternalizeActionArgs(a) ==
  Written(WriteItems(Ok(WriteString(a.Tx) \o WriteVarInt(Len(a.Outputs))),
                     "internalizeOutput", a.Outputs),
          WriteString(a.Description) \o WriteStringSlice(a.Labels)
            \o WriteOptionalBool(a.SeekPermission))

\* InternalizeProtocolFromString on the string read
InternalizeProtocolOf(s) ==
  IF IsOk(s) /\ s.val \notin {<<>>, InternalizeProtocolWalletPayment,
                              InternalizeProtocolBasketInsertion}
  THEN [s EXCEPT !.err = <<"error reading protocol", "invalid internalize protocol">>]
  ELSE s

\* the payment remittance read into s.val
ReadPayment(s) ==
  ItemOf(ToItem(HeldString(ToItem(HeldString(ToItem(HeldString(
           Filling(s, Payment(<<>>, <<>>, <<>>))),
           "DerivationPrefix")), "DerivationSuffix")), "SenderIdentityKey"))

\* the insertion remittance read into s.val
ReadBasketInsertion(s) ==
  ItemOf(ToItem(HeldStringSlice(ToItem(HeldString(ToItem(HeldString(
           Filling(s, BasketInsertion(<<>>, <<>>, None))),
           "Basket")), "CustomInstructions")), "Tags"))

\* the remittance of either kind read into s.val
ReadRemittanceOf(s, field) ==
  IF field = "PaymentRemittance" THEN ReadPayment(s) ELSE ReadBasketInsertion(s)

\* after a presence byte: the remittance, a field of the output out
RemittanceOf(s, out, field) ==
  IF IsOk(s) /\ s.val = 1
  THEN Filling(ReadRemittanceOf(s, field),
               [out EXCEPT ![field] = Some(ReadRemittanceOf(s, field).val)])
  ELSE Filling(s, out)

\* the remittance behind the next byte
ReadRemittance(s, field) == RemittanceOf(HeldByte(s), s.item, field)

\* the body of the loop over the outputs
ReadInternalizeOutput(s) ==
  Returned(
    ReadRemittance(
      ReadRemittance(
        ToItem(InternalizeProtocolOf(HeldString(
          ToItem(HeldVarInt(Filling(s, InternalizeOutput(0, <<>>, None, None))),
                 "OutputIndex"))),
          "Protocol"),
        "PaymentRemittance"),
      "InsertionRemittance"),
    "error reading internalize output")

\* the outputs after their count: a slice that is never nil
InternalizeOutputsOf(s) ==
  IF IsOk(s) /\ s.val >= 0
  THEN Valued(ReadItems(s, "internalizeOutput", s.val, <<>>),
              ReadItems(s, "internalizeOutput", s.val, <<>>).val[1])
  ELSE Valued(s, <<>>)

\* the transaction and the outputs
ReadTxAndOutputs(s) ==
  ToArg(InternalizeOutputsOf(HeldVarInt(
          Returned(ToArg(HeldBytes(s), "Tx"), "error reading tx bytes"))),
        "Outputs")

\* the description, the labels and the permission flag
ReadAfterOutputs(s) ==
  CheckComplete(
    ToArg(HeldOptionalBool(
      ToArg(HeldStringSlice(
        ToArg(HeldString(s), "Description")),
        "Labels")),
      "SeekPermission"))

DeserializeInternalizeActionArgs(data) ==
  Parsed(
    Returned(
      Then(ReadAfterOutputs, {ReadTxAndOutputs(Parse(data, NoInternalizeActionArgs))}),
      "error reading internalize action args"),
    NoInternalizeActionArgs)

\* ---- ListActionsResult ----
ActionInput(sourceOutpoint, sourceSatoshis, sourceLockingScript, unlockingScript,
            inputDescription, sequenceNumber) ==
  [SourceOutpoint |-> sourceOutpoint, SourceSatoshis |-> sourceSatoshis,
   SourceLockingScript |-> sourceLockingScript, UnlockingScript |-> unlockingScript,
   InputDescription |-> inputDescription, SequenceNumber |-> sequenceNumber]

ActionOutput(outputIndex, satoshis, lockingScript, spendable, outputDescription, basket,
             tags, customInstructions) ==
  [OutputIndex |-> outputIndex, Satoshis |-> satoshis, LockingScript |-> lockingScript,
   Spendable |-> spendable, OutputDescription |-> outputDescription, Basket |-> basket,
   Tags |-> tags, CustomInstructions |-> customInstructions]

Action(txid, satoshis, status, isOutgoing, description, labels, version, lockTime, inputs,
       outputs) ==
  [Txid |-> txid, Satoshis |-> satoshis, Status |-> status, IsOutgoing |-> isOutgoing,
   Description |-> description, Labels |-> labels, Version |-> version,
   LockTime |-> lockTime, Inputs |-> inputs, Outputs |-> outputs]

ListActionsResult(totalActions, actions) ==
  [TotalActions |-> totalActions, Actions |-> actions]

NoListActionsResult == ListActionsResult(0, <<>>)

\* the statuses of an action, in the order of their codes
ActionStatuses ==
  <<"completed", "unprocessed", "sending", "unproven", "unsigned", "nosend", "nonfinal">>

\* wallet.ActionStatusCode of a status; 0 for a status that has none
ActionStatusCode(status) ==
  IF \E i \in DOMAIN ActionStatuses : ActionStatuses[i] = status
  THEN CHOOSE i \in DOMAIN ActionStatuses : ActionStatuses[i] = status
  ELSE 0

\* the switch on action.Status
WriteActionStatus(w, status) ==
  IF ~IsOk(w) THEN w
  ELSE IF ActionStatusCode(status) = 0 THEN Fail(<<"invalid action status">>, <<>>)
  ELSE Written(w, <<ActionStatusCode(status)>>)

\* Writer.WriteOptionalFromHex: -1 for the empty string, else the length
\* and the bytes
WriteOptionalFromHex(s) == IF s = <<>> THEN Ok(AbsentVarInt) ELSE WithLength(HexDecode(s))

\* the body of the loop over action.Inputs
WriteActionInput(w, input) ==
  Written(
    WrittenOr(
      WrittenOr(
        Written(WrittenOr(w, EncodeOutpoint(input.SourceOutpoint),
                          <<"invalid source outpoint">>),
                WriteVarInt(input.SourceSatoshis)),
        WriteOptionalFromHex(input.SourceLockingScript), <<"invalid source locking script">>),
      WriteOptionalFromHex(input.UnlockingScript), <<"invalid unlocking script">>),
    WriteString(input.InputDescription) \o WriteVarInt(input.SequenceNumber))

\* the body of the loop over action.Outputs
WriteActionOutput(w, output) ==
  Written(
    WrittenOr(Written(w, WriteVarInt(output.OutputIndex) \o WriteVarInt(output.Satoshis)),
              WriteOptionalFromHex(output.LockingScript), <<"invalid locking script">>),
    WriteOptionalBool(Some(output.Spendable)) \o WriteString(output.OutputDescription)
      \o WriteString(output.Basket) \o WriteStringSlice(output.Tags)
      \o WriteOptionalString(output.CustomInstructions))

\* the txid, the satoshis, the status and the fields of an action up to
\* the number of its inputs
WriteActionFields(w, action) ==
  Written(
    WriteActionStatus(
      Written(WrittenOr(w, HexDecode(action.Txid), <<"invalid txid hex">>),
              WriteVarInt(action.Satoshis)),
      action.Status),
    WriteOptionalBool(Some(action.IsOutgoing)) \o WriteString(action.Description)
      \o WriteStringSlice(action.Labels) \o WriteVarInt(action.Version)
      \o WriteVarInt(action.LockTime) \o WriteVarInt(Len(action.Inputs)))

\* the inputs of an action and the number of its outputs
WriteActionInputs(w, action) ==
  Written(WriteItems(w, "actionInput", action.Inputs), WriteVarInt(Len(action.Outputs)))

\* the body of the loop over result.Actions
WriteAction(w, action) ==
  Then(LAMBDA v : WriteItems(v, "actionOutput", action.Outputs),
       {Then(LAMBDA v : WriteActionInputs(v, action), {WriteActionFields(w, action)})})

SerializeListActionsResult(result) ==
  WriteItems(Ok(WriteVarInt(result.TotalActions) \o WriteVarInt(Len(result.Actions))),
             "action", result.Actions)

\* Reader.ReadOptionalToHex: the empty string for -1, else the bytes in
\* hexadecimal
HeldOptionalToHex(s) ==
  IF IsAbsent(HeldVarInt(s)) THEN Valued(HeldVarInt(s), <<>>)
  ELSE HexEncoded(LengthAndBytes(HeldVarInt(s), ""))

\* after a byte: whether it is 1
IsOne(s) == Valued(s, s.val = 1)

\* input.SourceOutpoint, _ = decodeOutpoint(opBytes)
SourceOutpointOf(s) == Valued(s, DecodeOutpoint(s.val).val)

\* the switch on the status byte; the reader that holds an error has read 0
ActionStatusOf(s) ==
  IF ~IsOk(s)
    THEN IF s.err[1] = "" THEN [s EXCEPT !.err = <<"invalid status byte">>] ELSE s
  ELSE IF s.val \notin DOMAIN ActionStatuses THEN [s EXCEPT !.err = <<"invalid status byte">>]
  ELSE Valued(s, ActionStatuses[s.val])

\* the outpoint, the satoshis and the locking script of the source of an
\* input
ReadActionInputSource(s) ==
  ToItem(HeldOptionalToHex(
    ToItem(HeldVarInt(
      ToItem(SourceOutpointOf(NextBytes(
               Filling(s, ActionInput(Outpoint(<<>>, 0), 0, <<>>, <<>>, <<>>, 0)),
               OutpointLen, "")),
             "SourceOutpoint")),
      "SourceSatoshis")),
    "SourceLockingScript")

\* the unlocking script, the description and the sequence number
ReadActionInputTexts(s) ==
  ToItem(HeldVarInt(
    ToItem(HeldString(
      ToItem(HeldOptionalToHex(s), "UnlockingScript")),
      "InputDescription")),
    "SequenceNumber")

\* the body of the loop over the inputs of an action
ReadActionInput(s) ==
  Returned(Then(ReadActionInputTexts, {ReadActionInputSource(s)}),
           "error reading list action input")

\* the index, the satoshis, the locking script and the Spendable flag of
\* an output
ReadActionOutputScript(s) ==
  ToItem(IsOne(HeldByte(
    ToItem(HeldOptionalToHex(
      ToItem(HeldVarInt(
        ToItem(HeldVarInt(
                 Filling(s, ActionOutput(0, 0, <<>>, FALSE, <<>>, <<>>, None, <<>>))),
               "OutputIndex")),
        "Satoshis")),
      "LockingScript"))),
    "Spendable")

\* the description and the basket of an output
ReadActionOutputTexts(s) ==
  ToItem(HeldString(ToItem(HeldString(s), "OutputDescription")), "Basket")

\* the tags and the custom instructions
ReadActionOutputTags(s) ==
  ToItem(HeldString(ToItem(HeldStringSlice(s), "Tags")), "CustomInstructions")

\* the body of the loop over the outputs of an action
ReadActionOutput(s) ==
  Returned(
    Then(ReadActionOutputTags, {Then(ReadActionOutputTexts, {ReadActionOutputScript(s)})}),
    "error reading list action output")

\* after a count: the slice made with that capacity and the items appended
MadeSliceOf(s, kind) ==
  IF IsOk(s)
  THEN Valued(ReadItems(s, kind, s.val, <<>>), ReadItems(s, kind, s.val, <<>>).val[1])
  ELSE s

\* the slice of the inputs or outputs, assigned to a field of the action
\* being filled
ToAction(s, kind, field) ==
  IF IsOk(MadeSliceOf(s, kind))
  THEN Filling(MadeSliceOf(s, kind), [s.item EXCEPT ![field] = MadeSliceOf(s, kind).val])
  ELSE MadeSliceOf(s, kind)

\* the txid, the satoshis and the status of an action
ReadActionStatus(s) ==
  ToItem(ActionStatusOf(HeldByte(
    ToItem(HeldVarInt(
      ToItem(HexEncoded(NextBytes(
               Filling(s, Action(<<>>, 0, "", FALSE, <<>>, None, 0, 0, <<>>, <<>>)),
               TxidLen, "")),
             "Txid")),
      "Satoshis"))),
    "Status")

\* IsOutgoing, Description and Labels
ReadActionTexts(s) ==
  ToItem(HeldStringSlice(
    ToItem(HeldString(
      ToItem(IsOne(HeldByte(s)), "IsOutgoing")),
      "Description")),
    "Labels")

\* Version and LockTime
ReadActionFields(s) ==
  ToItem(HeldVarInt(ToItem(HeldVarInt(s), "Version")), "LockTime")

\* the inputs and the outputs of an action
ReadActionInputs(s) == ToAction(HeldVarInt(s), "actionInput", "Inputs")

ReadActionOutputs(s) == ToAction(HeldVarInt(s), "actionOutput", "Outputs")

\* the body of the loop over the actions
ReadAction(s) ==
  Returned(
    Then(ReadActionOutputs,
         {Then(ReadActionInputs,
               {Then(ReadActionFields, {Then(ReadActionTexts, {ReadActionStatus(s)})})})}),
    "error reading list action")

DeserializeListActionsResult(data) ==
  Parsed(
    Returned(
      ToArg(MadeSliceOf(HeldVarInt(
              ToArg(HeldVarInt(Parse(data, NoListActionsResult)), "TotalActions")),
            "action"),
            "Actions"),
      "error reading list action result"),
    NoListActionsResult)

\* ---- InternalizeActionResult ----
InternalizeActionResult(accepted) == [Accepted |-> accepted]

\* nothing is written for the result
SerializeInternalizeActionResult(result) == Ok(<<>>)

\* the result read is accepted, whatever the bytes
DeserializeInternalizeActionResult(data) == Ok(InternalizeActionResult(TRUE))

\* the bodies of the loops of the serialisers
WriteItem(w, kind, item) ==
  CASE kind = "input" -> WriteInput(w, item)
    [] kind = "output" -> WriteOutput(w, item)
    [] kind = "knownTxid" -> WrittenOr(w, HexDecode(item), <<"error decoding known txid">>)
    [] kind = "sendWith" ->
         WrittenOr(w, HexDecode(item), <<"error decoding send with txid">>)
    [] kind = "noSendChange" -> WrittenOr(w, EncodeOutpoint(item), <<>>)
    [] kind = "internalizeOutput" -> Written(w, WriteInternalizeOutput(item))
    [] kind = "action" -> WriteAction(w, item)
    [] kind = "actionInput" -> WriteActionInput(w, item)
    [] kind = "actionOutput" -> WriteActionOutput(w, item)
    [] OTHER -> Written(w, WriteString(item))

\* the bodies of the loops of the deserialisers: the item read is s.val
ReadItem(s, kind) ==
  CASE kind = "input" -> ItemOf(ReadInput(s))
    [] kind = "output" -> ItemOf(ReadOutput(s))
    [] kind = "tag" -> ReadStringField(s, "error reading tag length", "error reading tag")
    [] kind = "label" ->
         ReadStringField(s, "error reading label length", "error reading label")
    [] kind = "knownTxid" -> HexEncoded(NextBytes(s, TxidLen, "error reading known txid"))
    [] kind = "sendWith" -> HexEncoded(NextBytes(s, TxidLen, "error reading sendWith txid"))
    [] kind = "noSendChange" ->
         OutpointOf(NextBytes(s, OutpointLen, "error reading noSendChange outpoint"),
                    "error decoding noSendChange outpoint")
    [] kind = "internalizeOutput" -> ItemOf(ReadInternalizeOutput(s))
    [] kind = "action" -> ItemOf(ReadAction(s))
    [] kind = "actionInput" -> ItemOf(ReadActionInput(s))
    [] kind = "actionOutput" -> ItemOf(ReadActionOutput(s))
    [] OTHER -> HeldString(s)

(***************************************************************************)
(* The codec at work: a caller builds an argument structure or a frame,    *)
(* the serialiser encodes it, the transport hands the bytes over (it may   *)
(* lose the last ones or append some) and the deserialiser decodes them.   *)
(***************************************************************************)
\* a call of a codec: the structure, the number of bytes the transport
\* loses at the end of the encoding and the bytes it appends
CodecCall(op, a, cut, tail) == [op |-> op, root |-> 0, args |-> a, cut |-> cut, tail |-> tail]

\* the message the deserialiser is handed for the encoding b
Transported(c, b) == SubSeq(b, 1, Len(b) - c.cut) \o c.tail

\* what a transport does to an encoding
Transports == {<<0, <<>>>>, <<1, <<>>>>, <<0, <<0>>>>, <<0, <<255, 1>>>>, <<3, <<7>>>>}

SampleTxid == [i \in 1..(2 * TxidLen) |-> HexDigits[((3 * i) % 16) + 1]]

SampleOutpoint == Outpoint(SampleTxid, 1)

SampleInput == CreateActionInput(SampleOutpoint, <<"7","6","a","9">>, 0, <<105, 110>>, 7)

\* the inputs: with a script, with only a script length, with both, with a
\* script in upper-case hexadecimal, with neither
SampleInputs ==
  {SampleInput,
   [SampleInput EXCEPT !.UnlockingScript = <<>>, !.UnlockingScriptLength = 300,
                       !.SequenceNumber = 0],
   [SampleInput EXCEPT !.UnlockingScriptLength = 2],
   [SampleInput EXCEPT !.UnlockingScript = <<"7","6","A","9">>],
   [SampleInput EXCEPT !.UnlockingScript = <<>>, !.Outpoint = Outpoint(SampleTxid, 70000)]}

SampleOutput ==
  CreateActionOutput(<<"0","0">>, 1000, <<111, 117, 116>>, <<>>, <<>>, None)

SampleOutputs ==
  {SampleOutput,
   CreateActionOutput(<<>>, 0, <<>>, <<98>>, <<99, 105>>, Some(<<<<116>>, <<>>>>)),
   CreateActionOutput(<<"8","8","a","c">>, 70000, <<>>, <<>>, <<99>>, Some(<<>>))}

SampleOptions ==
  CreateActionOptions(Some(TRUE), Some(FALSE), "known", Some(<<SampleTxid>>), None,
                      Some(TRUE), Some(<<SampleOutpoint>>), Some(<<SampleTxid, SampleTxid>>),
                      Some(FALSE))

SampleOptionsSet ==
  {SampleOptions,
   CreateActionOptions(None, None, "", None, None, None, None, None, None),
   CreateActionOptions(Some(FALSE), None, "", Some(<<>>), Some(FALSE), None, Some(<<>>),
                       Some(<<>>), Some(TRUE)),
   [SampleOptions EXCEPT !.TrustSelf = "unknown"],
   [SampleOptions EXCEPT !.KnownTxids = Some(<<<<"0","0">>>>)],
   [SampleOptions EXCEPT !.SendWith = Some(<<<<"z","z">>>>)]}

SampleCreateActionArgs ==
  CreateActionArgs(<<84, 101, 115, 116>>, Some(<<1, 2, 3>>), Some(<<SampleInput>>),
                   Some(<<SampleOutput>>), 500, 1, Some(<<<<108>>>>), Some(SampleOptions))

\* every combination of present and absent InputBEEF, inputs, outputs,
\* lockTime, version, labels and options, and the variants of each field
CreateActionArgsSet ==
  {CreateActionArgs(SampleCreateActionArgs.Description, inputBEEF, inputs, outputs,
                    lockTime, version, labels, options) :
     inputBEEF \in {None, SampleCreateActionArgs.InputBEEF},
     inputs \in {None, SampleCreateActionArgs.Inputs},
     outputs \in {None, SampleCreateActionArgs.Outputs},
     lockTime \in {0, SampleCreateActionArgs.LockTime},
     version \in {0, SampleCreateActionArgs.Version},
     labels \in {None, SampleCreateActionArgs.Labels},
     options \in {None, SampleCreateActionArgs.Options}}
  \cup {[SampleCreateActionArgs EXCEPT !.Inputs = Some(<<input>>)] : input \in SampleInputs}
  \cup {[SampleCreateActionArgs EXCEPT !.Inputs = inputs] :
          inputs \in {Some(<<>>), Some(<<SampleInput, SampleInput>>)}}
  \cup {[SampleCreateActionArgs EXCEPT !.Outputs = Some(<<output>>)] :
          output \in SampleOutputs}
  \cup {[SampleCreateActionArgs EXCEPT !.Outputs = Some(<<SampleOutput, output>>)] :
          output \in SampleOutputs}
  \cup {[SampleCreateActionArgs EXCEPT !.Options = Some(options)] :
          options \in SampleOptionsSet}
  \cup {[SampleCreateActionArgs EXCEPT !.Description = description, !.Labels = labels] :
          description \in {<<>>, [i \in 1..300 |-> 97]},
          labels \in {Some(<<>>), Some(<<<<>>, <<108, 98>>>>)}}

SampleCreateSignatureArgs ==
  CreateSignatureArgs([SecurityLevel |-> 1, Protocol |-> <<116, 101, 115, 116, 115>>],
                      <<52>>, [Type |-> CounterpartyTypeSelf, Counterparty |-> <<>>],
                      FALSE, <<>>, Some(<<1, 2, 3>>), <<>>, FALSE)

CreateSignatureArgsSet ==
  {[SampleCreateSignatureArgs EXCEPT !.Counterparty = counterparty, !.Data = signable[1],
                                     !.HashToDirectlySign = signable[2],
                                     !.Privileged = privileged,
                                     !.PrivilegedReason = IF privileged THEN <<114>> ELSE <<>>,
                                     !.SeekPermission = privileged] :
     counterparty \in {[Type |-> CounterpartyTypeSelf, Counterparty |-> <<>>],
                       [Type |-> CounterpartyTypeAnyone, Counterparty |-> <<>>],
                       [Type |-> CounterpartyTypeOther,
                        Counterparty |-> [i \in 1..PubKeyLen |-> 2]]},
     signable \in {<<Some(<<1, 2, 3>>), <<>>>>, <<Some(<<>>), <<>>>>,
                   <<None, [i \in 1..HashLen |-> i]>>},
     privileged \in BOOLEAN}

ListActionsArgsSet ==
  {ListActionsArgs(labels, labelQueryMode, include, None, Some(TRUE), include, None,
                   Some(FALSE), limit, 0, include) :
     labels \in {None, Some(<<<<108>>, <<108, 98>>>>)},
     labelQueryMode \in {"any", "all", "", "some"},
     include \in {None, Some(TRUE)},
     limit \in {0, 10}}

InternalizeActionArgsSet ==
  {InternalizeActionArgs(<<1, 2, 3>>, outputs, <<100>>, labels, seekPermission) :
     outputs \in {<<>>,
                  <<InternalizeOutput(1, InternalizeProtocolWalletPayment,
                                      Some(Payment(<<1>>, <<2>>, <<3>>)), None)>>,
                  <<InternalizeOutput(0, InternalizeProtocolBasketInsertion, None,
                                      Some(BasketInsertion(<<98>>, <<>>,
                                                           Some(<<<<116>>>>)))),
                    InternalizeOutput(2, <<>>, None, None)>>,
                  <<InternalizeOutput(300, InternalizeProtocolBasketInsertion, None,
                                      Some(BasketInsertion(<<98>>, <<99, 105>>, None)))>>,
                  <<InternalizeOutput(1, <<112>>, None, None)>>},
     labels \in {None, Some(<<<<108>>>>)},
     seekPermission \in {None, Some(FALSE)}}

MaxOriginatorLen == 255

RequestFrames ==
  {RequestFrame(call, originator, params) :
     call \in {0, 1, 255},
     originator \in {<<>>, <<111, 114>>, [i \in 1..MaxOriginatorLen |-> 111],
                     [i \in 1..(MaxOriginatorLen + 1) |-> 111]},
     params \in {<<>>, <<9>>, <<0, 255, 7>>}}

\* the arguments of WriteResultFrame: a result, and an error or nil
ResultFrameArgs(result, e) == [Result |-> result, Err |-> e]

WireErrors ==
  {WireError(code, message, stack) :
     code \in {0, 1, 255},
     message \in {<<>>, <<101, 114, 114>>, [i \in 1..253 |-> 101]},
     stack \in {<<>>, <<115>>}}

ResultFrames ==
  {ResultFrameArgs(result, e) :
     result \in {<<>>, <<7>>, <<0, 1, 2>>},
     e \in {None} \cup {Some(w) : w \in WireErrors}}

\* the structures of each codec
CodecArgs(op) ==
  CASE op = "CreateActionArgs" -> CreateActionArgsSet
    [] op = "CreateSignatureArgs" -> CreateSignatureArgsSet
    [] op = "ListActionsArgs" -> ListActionsArgsSet
    [] op = "InternalizeActionArgs" -> InternalizeActionArgsSet
    [] op = "ResultFrame" -> ResultFrames
    [] OTHER -> RequestFrames

CodecOps ==
  {"CreateActionArgs", "CreateSignatureArgs", "ListActionsArgs", "InternalizeActionArgs",
   "RequestFrame", "ResultFrame"}

\* no encoding yet, no decoding yet
NoEncoding == Fail(<<"not serialised">>, <<>>)

NoDecoding == Fail(<<"not deserialised">>, <<>>)

\* the caller builds a structure
CCall(op, a, transport) ==
  /\ wcall.op = ""
  /\ wcall' = CodecCall(op, a, transport[1], transport[2])
  /\ wire' = NoEncoding
  /\ wresult' = NoDecoding
  /\ UNCHANGED <<wlog, cacheVars>>

\* a serialiser is called with the structure
Serializing(op) == wcall.op = op /\ wire = NoEncoding

\* a deserialiser is called with the message the transport hands over
Deserializing(op) == wcall.op = op /\ IsOk(wire) /\ wresult = NoDecoding

CSerializeCreateActionArgs ==
  /\ Serializing("CreateActionArgs")
  /\ wire' = SerializeCreateActionArgs(wcall.args)
  /\ UNCHANGED <<wcall, wresult, wlog, cacheVars>>

CDeserializeCreateActionArgs ==
  /\ Deserializing("CreateActionArgs")
  /\ wresult' = DeserializeCreateActionArgs(Transported(wcall, wire.val))
  /\ UNCHANGED <<wcall, wire, wlog, cacheVars>>

CSerializeCreateSignatureArgs ==
  /\ Serializing("CreateSignatureArgs")
  /\ wire' = SerializeCreateSignatureArgs(wcall.args)
  /\ UNCHANGED <<wcall, wresult, wlog, cacheVars>>

CDeserializeCreateSignatureArgs ==
  /\ Deserializing("CreateSignatureArgs")
  /\ wresult' = DeserializeCreateSignatureArgs(Transported(wcall, wire.val))
  /\ UNCHANGED <<wcall, wire, wlog, cacheVars>>

CSerializeListActionsArgs ==
  /\ Serializing("ListActionsArgs")
  /\ wire' = SerializeListActionsArgs(wcall.args)
  /\ UNCHANGED <<wcall, wresult, wlog, cacheVars>>

CDeserializeListActionsArgs ==
  /\ Deserializing("ListActionsArgs")
  /\ wresult' = DeserializeListActionsArgs(Transported(wcall, wire.val))
  /\ UNCHANGED <<wcall, wire, wlog, cacheVars>>

CSerializeInternalizeActionArgs ==
  /\ Serializing("InternalizeActionArgs")
  /\ wire' = SerializeInternalizeActionArgs(wcall.args)
  /\ UNCHANGED <<wcall, wresult, wlog, cacheVars>>

CDeserializeInternalizeActionArgs ==
  /\ Deserializing("InternalizeActionArgs")
  /\ wresult' = DeserializeInternalizeActionArgs(Transported(wcall, wire.val))
  /\ UNCHANGED <<wcall, wire, wlog, cacheVars>>

CWriteRequestFrame ==
  /\ Serializing("RequestFrame")
  /\ wire' = Ok(WriteRequestFrame(wcall.args))
  /\ UNCHANGED <<wcall, wresult, wlog, cacheVars>>

CReadRequestFrame ==
  /\ Deserializing("RequestFrame")
  /\ wresult' = ReadRequestFrame(Transported(wcall, wire.val))
  /\ UNCHANGED <<wcall, wire, wlog, cacheVars>>

CWriteResultFrame ==
  /\ Serializing("ResultFrame")
  /\ wire' = Ok(WriteResultFrame(wcall.args.Result, wcall.args.Err))
  /\ UNCHANGED <<wcall, wresult, wlog, cacheVars>>

CReadResultFrame ==
  /\ Deserializing("ResultFrame")
  /\ wresult' = ReadResultFrame(Transported(wcall, wire.val))
  /\ UNCHANGED <<wcall, wire, wlog, cacheVars>>

CodecNext ==
  \/ \E op \in CodecOps, transport \in Transports : \E a \in CodecArgs(op) :
       CCall(op, a, transport)
  \/ CSerializeCreateActionArgs
  \/ CDeserializeCreateActionArgs
  \/ CSerializeCreateSignatureArgs
  \/ CDeserializeCreateSignatureArgs
  \/ CSerializeListActionsArgs
  \/ CDeserializeListActionsArgs
  \/ CSerializeInternalizeActionArgs
  \/ CDeserializeInternalizeActionArgs
  \/ CWriteRequestFrame
  \/ CReadRequestFrame
  \/ CWriteResultFrame
  \/ CReadResultFrame

CodecSpec == CacheInit /\ [][CodecNext]_vars

(***************************************************************************)
(* interpreter.ScriptNumber: a number of the script engine.  wlog holds    *)
(* the number in memory, wcall the last method called with the receiver as *)
(* it was before the call, wresult what the call returned, and wire what   *)
(* the call of Bytes before it returned for the same number.               *)
(***************************************************************************)
ScriptNumber(v, afterGenesis) == [Val |-> v, AfterGenesis |-> afterGenesis]

\* Neg: the receiver after the call
Neg(n) == [n EXCEPT !.Val = 0 - n.Val]

IsZero(n) == n.Val = 0

\* the loop of Bytes: the bytes of a magnitude, least significant first
RECURSIVE LittleEndian(_)
LittleEndian(v) == IF v <= 0 THEN <<>> ELSE <<v % 256>> \o LittleEndian(v \div 256)

\* the sign bit: in an additional byte when the most significant byte has
\* its high bit set, else in the most significant byte of a negative number
Signed(result, isNegative) ==
  IF result[Len(result)] >= 128 THEN result \o <<IF isNegative THEN 128 ELSE 0>>
  ELSE IF isNegative THEN [result EXCEPT ![Len(result)] = result[Len(result)] + 128]
  ELSE result

\* the receiver in the body of Bytes: a negative receiver is negated in place
Magnitude(n) == IF n.Val < 0 THEN Neg(n) ELSE n

\* Bytes: what it returns, and the receiver after the call
Bytes(n) ==
  IF IsZero(n) THEN [ret |-> <<>>, n |-> n]
  ELSE [ret |-> Signed(LittleEndian(Magnitude(n).Val), n.Val < 0), n |-> Magnitude(n)]

\* the values of the numbers: around the byte boundaries, both signs
NumberValues ==
  {0, 1, 2, 127, 128, 129, 255, 256, 32767, 32768, 8388607, 8388608}
    \cup {0 - v : v \in {1, 2, 127, 128, 129, 255, 256, 32767, 32768, 8388607, 8388608}}

NumberCall(op, n) == [op |-> op, root |-> 0, args |-> n]

\* a script number is created
NSet(v, afterGenesis) ==
  /\ wcall' = NumberCall("Set", ScriptNumber(v, afterGenesis))
  /\ wlog' = <<ScriptNumber(v, afterGenesis)>>
  /\ wresult' = NoDecoding
  /\ wire' = NoEncoding
  /\ UNCHANGED cacheVars

\* Bytes is called on the number
NBytes ==
  /\ wlog # <<>>
  /\ wcall' = NumberCall("Bytes", wlog[1])
  /\ wlog' = <<Bytes(wlog[1]).n>>
  /\ wresult' = Ok(Bytes(wlog[1]).ret)
  /\ wire' = IF wcall.op = "Bytes" THEN wresult ELSE NoEncoding
  /\ UNCHANGED cacheVars

\* Neg is called on the number
NNeg ==
  /\ wlog # <<>>
  /\ wcall' = NumberCall("Neg", wlog[1])
  /\ wlog' = <<Neg(wlog[1])>>
  /\ wresult' = NoDecoding
  /\ wire' = NoEncoding
  /\ UNCHANGED cacheVars

NumberNext ==
  \/ \E v \in NumberValues, afterGenesis \in BOOLEAN : NSet(v, afterGenesis)
  \/ NBytes
  \/ NNeg

NumberSpec == CacheInit /\ [][NumberNext]_vars

(***************************************************************************)
(* WalletWireTransceiver and WalletWireProcessor: the transceiver encodes  *)
(* a call into a request frame, the processor decodes it, calls the wallet *)
(* behind it and answers, and the transceiver decodes the answer.  The     *)
(* calls whose serialisers are in the repository, ListActions and          *)
(* InternalizeAction, are the ones the frames of the model carry.          *)
(***************************************************************************)
\* the call byte of a method
CallByte(method) ==
  CASE method = "CreateAction" -> 1
    [] method = "SignAction" -> 2
    [] method = "AbortAction" -> 3
    [] method = "ListActions" -> 4
    [] method = "InternalizeAction" -> 5
    [] method = "ListOutputs" -> 6

\* a call the wallet behind the processor received
Invocation(method, a, originator) ==
  [method |-> method, args |-> a, originator |-> originator]

\* what a process* method returns, and the calls the wallet received
Processed(r, invoked) == [err |-> r.err, val |-> r.val, invoked |-> invoked]

\* the wallet answers a call with answer: its result or its error
processListActions(requestFrame, answer) ==
  IF ~IsOk(DeserializeListActionsArgs(requestFrame.Params))
  THEN Processed(Fail(<<"failed to deserialize list action args">>
                        \o DeserializeListActionsArgs(requestFrame.Params).err, <<>>),
                 <<>>)
  ELSE IF ~IsOk(answer)
  THEN Processed(Fail(<<"failed to process list action">> \o answer.err, <<>>),
                 <<Invocation("ListActions",
                              DeserializeListActionsArgs(requestFrame.Params).val,
                              requestFrame.Originator)>>)
  ELSE Processed(SerializeListActionsResult(answer.val),
                 <<Invocation("ListActions",
                              DeserializeListActionsArgs(requestFrame.Params).val,
                              requestFrame.Originator)>>)

processInternalizeAction(requestFrame, answer) ==
  IF ~IsOk(DeserializeInternalizeActionArgs(requestFrame.Params))
  THEN Processed(Fail(<<"failed to internalize list action args">>
                        \o DeserializeInternalizeActionArgs(requestFrame.Params).err, <<>>),
                 <<>>)
  ELSE IF ~IsOk(answer)
  THEN Processed(Fail(<<"failed to process internalize action">> \o answer.err, <<>>),
                 <<Invocation("InternalizeAction",
                              DeserializeInternalizeActionArgs(requestFrame.Params).val,
                              requestFrame.Originator)>>)
  ELSE Processed(SerializeInternalizeActionResult(answer.val),
                 <<Invocation("InternalizeAction",
                              DeserializeInternalizeActionArgs(requestFrame.Params).val,
                              requestFrame.Originator)>>)

\* the end of TransmitToWallet: an error is returned with no frame, a
\* response is framed as a success
Responded(p) ==
  IF ~IsOk(p) THEN Processed(Fail(<<"error calling">> \o p.err, <<>>), p.invoked)
  ELSE Processed(Ok(WriteResultFrame(p.val, None)), p.invoked)

\* the switch on the call byte
Dispatched(requestFrame, answer) ==
  CASE requestFrame.Call = CallByte("ListActions") ->
         Then(Responded, {processListActions(requestFrame, answer)})
    [] requestFrame.Call = CallByte("InternalizeAction") ->
         Then(Responded, {processInternalizeAction(requestFrame, answer)})
    [] OTHER -> Processed(Fail(<<"unknown call type">>, <<>>), <<>>)

TransmitToWallet(message, answer) ==
  IF Len(message) = 0 THEN Processed(Fail(<<"empty message">>, <<>>), <<>>)
  ELSE IF ~IsOk(ReadRequestFrame(message))
  THEN Processed(Fail(<<"failed to deserialize request frame">>
                        \o ReadRequestFrame(message).err, <<>>), <<>>)
  ELSE Dispatched(ReadRequestFrame(message).val, answer)

\* transmit, up to the call of the wire: the frame written
TransmitFrame(method, originator, params) ==
  WriteRequestFrame(RequestFrame(CallByte(method), originator, params))

\* transmit, after the call of the wire returned response
transmit(response) ==
  IF ~IsOk(response)
  THEN ResultRead(<<>>, <<"failed to transmit call to wallet wire">> \o response.err, None)
  ELSE ReadResultFrame(response.val)

\* the methods of the transceiver after transmit returned resp
ListActions(resp) ==
  IF ~IsOk(resp)
  THEN Fail(<<"failed to transmit list action call">> \o resp.err, NoListActionsResult)
  ELSE DeserializeListActionsResult(resp.val)

InternalizeAction(resp) ==
  IF ~IsOk(resp)
  THEN Fail(<<"failed to transmit internalize action call">> \o resp.err,
            InternalizeActionResult(FALSE))
  ELSE DeserializeInternalizeActionResult(resp.val)

\* the arguments of a method, serialised by the transceiver
Unless(r, msg) == IF IsOk(r) THEN r ELSE Wrap(msg, r)

SerializedArgs(method, a) ==
  IF method = "ListActions"
  THEN Unless(SerializeListActionsArgs(a), "failed to serialize list action arguments")
  ELSE Unless(SerializeInternalizeActionArgs(a),
              "failed to serialize internalize action arguments")

\* a call of a method of the transceiver, or a message handed to
\* TransmitToWallet by a client of its own: the wallet behind the processor
\* answers with answer; at is how far the call has come
WireCall(op, a, originator, message, answer, at) ==
  [op |-> op, root |-> 0, args |-> a, originator |-> originator, message |-> message,
   answer |-> answer, at |-> at]

WireMethods == {"ListActions", "InternalizeAction"}

\* the actions a wallet lists
SampleAction ==
  Action(SampleTxid, 1000, "sending", TRUE, <<100>>, Some(<<<<108>>>>), 1, 0,
         <<ActionInput(SampleOutpoint, 300, <<"7", "6">>, <<>>, <<105>>, 7)>>,
         <<ActionOutput(1, 200, <<"a", "9">>, TRUE, <<111>>, <<98>>, Some(<<<<116>>>>),
                        <<99>>)>>)

WalletFailure == Fail(<<"wallet failure">>, <<>>)

\* what the wallet answers a call of a method with
Answers(method) ==
  IF method = "ListActions"
  THEN {Ok(ListActionsResult(0, <<>>)), Ok(ListActionsResult(5, <<SampleAction>>)),
        Ok(ListActionsResult(2, <<[SampleAction EXCEPT !.Status = "completed",
                                                       !.Inputs = <<>>],
                                  [SampleAction EXCEPT !.IsOutgoing = FALSE,
                                                       !.Outputs = <<>>,
                                                       !.Labels = None]>>)),
        WalletFailure}
  ELSE {Ok(InternalizeActionResult(TRUE)), Ok(InternalizeActionResult(FALSE)),
        WalletFailure}

\* the arguments a caller passes to a method
WireArgs(method) ==
  IF method = "ListActions"
  THEN {a \in ListActionsArgsSet : a.LabelQueryMode \in {"any", "all"} /\ a.Limit > 0}
  ELSE {a \in InternalizeActionArgsSet :
          /\ a.SeekPermission # None
          /\ \A i \in DOMAIN a.Outputs :
               a.Outputs[i].Protocol \in {InternalizeProtocolWalletPayment,
                                          InternalizeProtocolBasketInsertion}}

Originators == {<<>>, <<111, 46, 105, 111>>}

\* the messages a client hands to TransmitToWallet itself: empty, cut
\* after the call byte, with a call byte no method has, and with
\* arguments that do not decode
Messages ==
  {<<>>, <<CallByte("ListActions")>>, <<0, 0>>, <<99, 1, 111, 7>>,
   <<CallByte("ListActions"), 0, 3>>, <<CallByte("InternalizeAction"), 1, 111, 9, 1>>,
   <<CallByte("InternalizeAction"), 0>>}

\* a caller calls a method of the transceiver: the arguments are
\* serialised and the request frame is handed to the wire
TCall(method, a, originator, answer) ==
  /\ wcall.op = ""
  /\ wlog' = <<>>
  /\ IF IsOk(SerializedArgs(method, a))
     THEN /\ wcall' = WireCall(method, a, originator,
                               TransmitFrame(method, originator,
                                             SerializedArgs(method, a).val),
                               answer, "sent")
          /\ wire' = Ok(TransmitFrame(method, originator, SerializedArgs(method, a).val))
          /\ wresult' = Ok(<<>>)
     ELSE /\ wcall' = WireCall(method, a, originator, <<>>, answer, "returned")
          /\ wire' = Ok(<<>>)
          /\ wresult' = Fail(SerializedArgs(method, a).err, <<>>)
  /\ UNCHANGED cacheVars

\* a client hands a message to TransmitToWallet
TMessage(message, answer) ==
  /\ wcall.op = ""
  /\ wlog' = <<>>
  /\ wcall' = WireCall("TransmitToWallet", <<>>, <<>>, message, answer, "sent")
  /\ wire' = Ok(message)
  /\ wresult' = Ok(<<>>)
  /\ UNCHANGED cacheVars

\* the processor handles the message: what it returns is on the wire
PTransmitToWallet ==
  /\ wcall.op # ""
  /\ wcall.at = "sent"
  /\ wcall' = [wcall EXCEPT !.at = "answered"]
  /\ \E p \in {TransmitToWallet(wire.val, wcall.answer)} :
       /\ wlog' = p.invoked
       /\ wire' = [err |-> p.err, val |-> p.val]
  /\ UNCHANGED <<wresult, cacheVars>>

\* what the caller is returned after transmit returned resp
Returning(c, resp) ==
  CASE c.op = "ListActions" -> ListActions(resp)
    [] c.op = "InternalizeAction" -> InternalizeAction(resp)
    [] OTHER -> resp

\* the transceiver, or the client, reads the answer
TReturn ==
  /\ wcall.op # ""
  /\ wcall.at = "answered"
  /\ wcall' = [wcall EXCEPT !.at = "returned"]
  /\ \E resp \in {transmit(wire)} : wresult' = Returning(wcall, resp)
  /\ UNCHANGED <<wlog, wire, cacheVars>>

WireNext ==
  \/ \E method \in WireMethods :
       \E a \in WireArgs(method), originator \in Originators, answer \in Answers(method) :
         TCall(method, a, originator, answer)
  \/ \E message \in Messages, answer \in {WalletFailure} : TMessage(message, answer)
  \/ PTransmitToWallet
  \/ TReturn

WireSpec == CacheInit /\ [][WireNext]_vars

(***************************************************************************)
(* Properties of the CachedKeyDeriver                                      *)
(***************************************************************************)
Min(a, b) == IF a <= b THEN a ELSE b

ListKeys == {list[i].Value : i \in DOMAIN list}

\* C1: whenever the cache lock is free the cache holds at most maxCacheSize
\* entries, and after N distinct fingerprints have been inserted it holds
\* exactly min(N, maxCacheSize) of them (an insert into a full cache evicts
\* exactly one entry).
C1_CacheBound ==
  mu = 0 =>
    /\ Cardinality(DOMAIN items) <= maxCacheSize
    /\ Len(list) <= maxCacheSize
    /\ Cardinality(DOMAIN items) = Min(Cardinality(DOMAIN lastPut), maxCacheSize)

\* more fingerprints were inserted than fit, and the cache is full and at rest
C1_Witness ==
  /\ mu = 0
  /\ Cardinality(DOMAIN lastPut) > maxCacheSize
  /\ Cardinality(DOMAIN items) = maxCacheSize

\* C2: the entry an insert evicts is the least recently accessed cached
\* entry, where a cache hit and a put both count as an access.
C2_EvictsLeastRecent ==
  [][\A k \in DOMAIN items \ DOMAIN items' : k = accessOrder[Len(accessOrder)]]_vars

\* a thread is about to evict, and the least recently accessed entry is not
\* the one that was inserted first (a hit or a refresh has reordered them)
C2_Witness ==
  \E t \in Threads :
    /\ pc[t] = "cacheSetEvict"
    /\ EvictNeeded(items, maxCacheSize)
    /\ \E k \in DOMAIN items :
         /\ k # accessOrder[Len(accessOrder)]
         /\ items[k].elem < items[accessOrder[Len(accessOrder)]].elem

\* C3: whenever the cache lock is free, the recency list and the map hold
\* the same fingerprints, the list holds no fingerprint twice, and every map
\* entry points at the list element that carries its own fingerprint.
C3_ListMatchesMap ==
  mu = 0 =>
    /\ ListKeys = DOMAIN items
    /\ \A i, j \in DOMAIN list : list[i].Value = list[j].Value => i = j
    /\ \A k \in DOMAIN items :
         \E i \in DOMAIN list : list[i].id = items[k].elem /\ list[i].Value = k

\* two threads missed on the same fingerprint and both have put it
C3_Witness ==
  /\ mu = 0
  /\ \E t1, t2 \in Threads :
       /\ t1 # t2
       /\ key[t1] = key[t2]
       /\ pc[t1] = "return" /\ ~ok[t1] /\ IsOk(ret[t1])
       /\ pc[t2] = "return" /\ ~ok[t2] /\ IsOk(ret[t2])

\* C4: every derive call on the CachedKeyDeriver returns the key, or the
\* error, that the wrapped KeyDeriver returns for the same arguments.
C4_SameAsUncached ==
  \A t \in Threads : pc[t] = "return" => ret[t] = Underlying(keyDeriver, args[t])

\* a call is returning a cache hit after an eviction has taken place
C4_Witness ==
  \E t \in Threads :
    /\ pc[t] = "return" /\ ok[t]
    /\ Cardinality(DOMAIN lastPut) > Cardinality(DOMAIN items)

\* C5: a cache read returns either nothing or the value most recently put
\* for exactly its fingerprint, and it returns a value exactly when that
\* fingerprint was put and not evicted since.
C5_ReadsLastPut ==
  [][\A t \in Threads :
       (pc[t] = "cacheGet" /\ pc'[t] # "cacheGet") =>
         /\ ok'[t] <=> (\E i \in DOMAIN accessOrder : accessOrder[i] = key[t])
         /\ ok'[t] => (key[t] \in DOMAIN lastPut /\ val'[t] = lastPut[key[t]])
         /\ ~ok'[t] => val'[t] = NoValue]_vars

\* one thread has read a value from the cache while the other thread is
\* inside cacheSet
C5_Witness ==
  \E t1, t2 \in Threads :
    /\ ok[t1] /\ pc[t1] = "return"
    /\ pc[t2] \in {"cacheSetStore", "cacheSetEvict"}

(***************************************************************************)
(* Properties of the ProtoWallet and of KeyDeriver.DeriveSymmetricKey      *)
(***************************************************************************)
\* the operation of the wallet that a call names
WalletOp(op, p, a) ==
  CASE op = "Encrypt" -> Encrypt(p, a)
    [] op = "Decrypt" -> Decrypt(p, a)
    [] op = "CreateHmac" -> CreateHmac(p, a)
    [] op = "VerifyHmac" -> VerifyHmac(p, a)
    [] op = "CreateSignature" -> CreateSignature(p, a)
    [] OTHER -> VerifySignature(p, a)

\* the latest call was made with the counterparty left uninitialised
CalledUninitialized == wcall.args.Counterparty.Type = CounterpartyUninitialized

\* C6: Encrypt, Decrypt, CreateHmac and VerifyHmac called with the
\* counterparty left uninitialised return exactly what they return when
\* they are called with counterparty Self.
C6_UninitializedAsSelf ==
  (wcall.op \in {"Encrypt", "Decrypt", "CreateHmac", "VerifyHmac"} /\ CalledUninitialized) =>
    wresult = WalletOp(wcall.op, NewWallet(wcall.root),
                       [wcall.args EXCEPT !.Counterparty = Self])

\* the counterparty a signature operation must hand to its KeyDeriver:
\* the default when none was given, else the one given
ExpectedCounterparty(default) ==
  IF CalledUninitialized THEN default ELSE wcall.args.Counterparty

\* C7: CreateSignature with the counterparty left uninitialised signs with
\* the private key derived for Anyone, VerifySignature with the counterparty
\* left uninitialised verifies against the public key derived for Self, and
\* a counterparty that was given is the one the key is derived for.
C7_SignatureDefaults ==
  LET kd == NewKeyDeriver(wcall.root)
      a == wcall.args
      rejected == Len(a.Data) = 0 /\ Len(a.Hash) = 0
      priv == KdDerivePrivateKey(kd, a.ProtocolID, a.KeyID, ExpectedCounterparty(Anyone))
      pub == KdDerivePublicKey(kd, a.ProtocolID, a.KeyID, ExpectedCounterparty(Self), a.ForSelf)
  IN /\ (wcall.op = "CreateSignature" /\ ~rejected) =>
          /\ wlog = <<KeyDeriverCall("DerivePrivateKey", ExpectedCounterparty(Anyone))>>
          /\ IsOk(wresult) <=> IsOk(priv)
          /\ IsOk(wresult) => wresult.Signature = Sign(priv.val, DataHash(a)).val
     /\ (wcall.op = "VerifySignature" /\ ~rejected) =>
          /\ wlog = <<KeyDeriverCall("DerivePublicKey", ExpectedCounterparty(Self))>>
          /\ IsOk(wresult) <=> (IsOk(pub) /\ Verify(a.Signature, DataHash(a), pub.val))
          /\ IsOk(wresult) => wresult.Valid

\* a wallet signed with the counterparty left uninitialised, and its own
\* verification with the counterparty left uninitialised rejects the signature
C7_Witness ==
  /\ wire.kind = "signature"
  /\ wire.args.Counterparty.Type = CounterpartyUninitialized
  /\ wcall.op = "VerifySignature"
  /\ wcall.root = wire.root
  /\ wcall.args.ProtocolID = wire.args.ProtocolID
  /\ wcall.args.Signature = wire.out.Signature
  /\ CalledUninitialized
  /\ wresult.err = <<"signature is not valid">>

\* C8: KeyDeriver.DeriveSymmetricKey with counterparty Self returns the error
\* "cannot derive symmetric key for self" and no key, whatever the protocol
\* and the key ID are, and derives nothing before it does.
C8_NoSymmetricKeyForSelf ==
  (wcall.op = "DeriveSymmetricKey" /\ wcall.args.Counterparty.Type = CounterpartyTypeSelf) =>
    /\ wresult.err = <<"cannot derive symmetric key for self">>
    /\ wresult.Bytes = <<>>
    /\ wlog = <<>>

\* DeriveSymmetricKey was called with Self and a protocol name that the
\* invoice number rules reject
C8_Witness ==
  /\ wcall.op = "DeriveSymmetricKey"
  /\ wcall.args.Counterparty.Type = CounterpartyTypeSelf
  /\ wcall.args.ProtocolID = ShortProtocol
  /\ ~IsOk(computeInvoiceNumber(ShortProtocol, wcall.args.KeyID))
  /\ ~IsOk(wresult)

\* C9: Encrypt with counterparty Self, given or defaulted, succeeds for a
\* valid protocol and key ID, and Decrypt of its ciphertext with counterparty
\* Self by the same wallet returns the plaintext.
C9_SelfRoundTrip ==
  (/\ wcall.op = "Encrypt"
   /\ wcall.args.Counterparty.Type \in {CounterpartyUninitialized, CounterpartyTypeSelf}
   /\ IsOk(computeInvoiceNumber(wcall.args.ProtocolID, wcall.args.KeyID))) =>
    /\ IsOk(wresult)
    /\ LET back == Decrypt(NewWallet(wcall.root),
                            [wcall.args EXCEPT !.Data = wresult.Bytes, !.Counterparty = Self])
       IN IsOk(back) /\ back.Bytes = wcall.args.Data

\* the latest call is a Decrypt by one party of the ciphertext that another
\* party encrypted for it, each naming the other's identity key, under the
\* same protocol and key ID
CrossPartyDecrypt ==
  /\ wcall.op = "Decrypt"
  /\ wire.kind = "ciphertext"
  /\ wcall.args.Data = wire.out.Bytes
  /\ wcall.args.ProtocolID = wire.args.ProtocolID
  /\ wcall.args.KeyID = wire.args.KeyID
  /\ wire.args.Counterparty = Other(IdentityKey(wcall.root))
  /\ wcall.args.Counterparty = Other(IdentityKey(wire.root))

\* C10: what A encrypts for B under a protocol and key ID, B decrypts for A
\* under the same protocol and key ID to the plaintext, and the symmetric
\* keys the two KeyDerivers derive are equal.
C10_CrossPartyRoundTrip ==
  CrossPartyDecrypt =>
    /\ IsOk(wresult)
    /\ wresult.Bytes = wire.args.Data
    /\ LET keyA == KdDeriveSymmetricKey(NewKeyDeriver(wire.root), wire.args.ProtocolID,
                                        wire.args.KeyID, wire.args.Counterparty)
           keyB == KdDeriveSymmetricKey(NewKeyDeriver(wcall.root), wcall.args.ProtocolID,
                                        wcall.args.KeyID, wcall.args.Counterparty)
       IN IsOk(keyA) /\ IsOk(keyB) /\ keyA.val = keyB.val

\* one party has decrypted what the other party encrypted for it
C10_Witness ==
  /\ CrossPartyDecrypt
  /\ wcall.root # wire.root
  /\ wire.args.Data = SampleData

(***************************************************************************)
(* Properties of the KeyDeriver and of GetPublicKey                        *)
(***************************************************************************)
\* a direct call with a valid protocol and key ID
ValidCall(op) ==
  /\ wcall.op = op
  /\ IsOk(computeInvoiceNumber(wcall.args.ProtocolID, wcall.args.KeyID))

\* C11: for root keys A and B and a valid protocol and key ID, the public
\* key A's deriver computes for Other(pubB) with forSelf = false is the
\* key B's deriver computes for Other(pubA) with forSelf = true, and it is
\* the public key of the private key B derives for Other(pubA).
C11_CounterpartyPublicKey ==
  \A B \in RootKeys :
    (/\ ValidCall("DerivePublicKey")
     /\ wcall.args.Counterparty = Other(IdentityKey(B))
     /\ ~wcall.args.ForSelf)
    => /\ IsOk(wresult)
       /\ wresult = SymmetricKeyResult(
            KdDerivePublicKey(NewKeyDeriver(B), wcall.args.ProtocolID, wcall.args.KeyID,
                              Other(IdentityKey(wcall.root)), TRUE))
       /\ IsOk(KdDerivePrivateKey(NewKeyDeriver(B), wcall.args.ProtocolID,
                                  wcall.args.KeyID, Other(IdentityKey(wcall.root))))
       /\ wresult.Bytes = <<PubKey(
            KdDerivePrivateKey(NewKeyDeriver(B), wcall.args.ProtocolID, wcall.args.KeyID,
                               Other(IdentityKey(wcall.root))).val)>>

\* root 2 has derived, for the counterparty of root 3, a key that is neither
\* party's identity key
C11_Witness ==
  /\ ValidCall("DerivePublicKey")
  /\ wcall.root = 2
  /\ wcall.args.Counterparty = Other(IdentityKey(3))
  /\ ~wcall.args.ForSelf
  /\ IsOk(wresult)
  /\ wresult.Bytes \notin {<<PubKey(2)>>, <<PubKey(3)>>}

\* the key the KeyDeriver of the caller derives for the call, with 'self'
\* for an uninitialised counterparty
DerivedForCall ==
  KdDerivePublicKey(NewKeyDeriver(wcall.root), wcall.args.ProtocolID, wcall.args.KeyID,
                    IF wcall.args.Counterparty = Uninitialized THEN Self
                    ELSE wcall.args.Counterparty,
                    wcall.args.ForSelf)

\* C15: GetPublicKey with IdentityKey returns the root public key for every
\* protocol, key ID, counterparty and forSelf, without deriving anything;
\* without IdentityKey and with an empty protocol name or an empty key ID
\* it returns an error before any counterparty defaulting or derivation;
\* otherwise it returns the public key derived for the given counterparty,
\* or for 'self' by default, and the forSelf flag.
C15_GetPublicKey ==
  wcall.op = "GetPublicKey" =>
    IF wcall.args.IdentityKey
      THEN /\ wresult = WalletResult(NoErr, <<PubKey(wcall.root)>>, NoSignature, FALSE)
           /\ wlog = <<>>
    ELSE IF Len(wcall.args.ProtocolID.Protocol) = 0 \/ Len(wcall.args.KeyID) = 0
      THEN /\ ~IsOk(wresult)
           /\ wresult = WalletError(wresult.err)
           /\ wlog = <<>>
    ELSE /\ IsOk(wresult) <=> IsOk(DerivedForCall)
         /\ IsOk(wresult) => wresult.Bytes = <<DerivedForCall.val>>
         /\ ~IsOk(wresult) => wresult = WalletError(wresult.err)

\* GetPublicKey has returned a key derived for itself and for the default
\* counterparty, which is not the root public key
C15_Witness ==
  /\ wcall.op = "GetPublicKey"
  /\ ~wcall.args.IdentityKey
  /\ wcall.args.Counterparty = Uninitialized
  /\ wcall.args.ForSelf
  /\ IsOk(wresult)
  /\ wresult.Bytes # <<PubKey(wcall.root)>>
  /\ wlog = <<KeyDeriverCall("DerivePublicKey", Self)>>

\* the first rule, in the order of the specification, that a security
\* level, a normalised protocol name and a key ID violate; 0 when none
FirstViolated(level, name, keyID) ==
  IF level \notin {0, 1, 2} THEN 1
  ELSE IF Len(keyID) < 1 \/ Len(keyID) > 800 THEN 2
  ELSE IF Len(name) < 5 THEN 3
  ELSE IF Len(name) > (IF HasPrefix(name, LinkagePrefix) THEN 430 ELSE 400) THEN 4
  ELSE IF \E i \in 1..(Len(name) - 1) : name[i] = " " /\ name[i + 1] = " " THEN 5
  ELSE IF \E i \in DOMAIN name : name[i] \notin (LowerChars \cup DigitChars \cup {" "})
    THEN 6
  ELSE IF HasSuffix(name, ProtocolSuffix) THEN 7
  ELSE 0

\* the rule an error of computeInvoiceNumber reports; 0 for no error
RuleOf(err) ==
  CASE err = <<>> -> 0
    [] err = <<"protocol security level must be 0, 1, or 2">> -> 1
    [] err \in {<<"key IDs must be 800 characters or less">>,
                <<"key IDs must be 1 character or more">>} -> 2
    [] err = <<"protocol names must be 5 characters or more">> -> 3
    [] err \in {<<"protocol names must be 400 characters or less">>,
                <<"specific linkage revelation protocol names must be 430 characters or less">>}
         -> 4
    [] err = <<"protocol names cannot contain multiple consecutive spaces (\"  \")">> -> 5
    [] err = <<"protocol names can only contain letters, numbers and spaces">> -> 6
    [] err = <<"no need to end your protocol name with \" protocol\"">> -> 7
    [] OTHER -> 0 - 1

\* C16: computeInvoiceNumber returns the error of the first violated rule,
\* in the order: security level not 0, 1 or 2; key ID length outside
\* 1..800; normalised name shorter than 5; normalised name longer than 400,
\* or than 430 with the linkage prefix; double space; a character outside
\* a-z, 0-9 and space; the suffix " protocol". It returns
\* "{securityLevel}-{normalisedName}-{keyID}" exactly when no rule is
\* violated.
C16_InvoiceNumber ==
  wcall.op = "computeInvoiceNumber" =>
    /\ RuleOf(wresult.err) =
         FirstViolated(wcall.args.ProtocolID.SecurityLevel,
                       ToLower(TrimSpace(wcall.args.ProtocolID.Protocol)),
                       wcall.args.KeyID)
    /\ IF IsOk(wresult)
         THEN wresult.Bytes =
                NatToString(wcall.args.ProtocolID.SecurityLevel) \o <<"-">>
                \o ToLower(TrimSpace(wcall.args.ProtocolID.Protocol)) \o <<"-">>
                \o wcall.args.KeyID
       ELSE wresult.Bytes = <<>>

\* computeInvoiceNumber has normalised a name with capitals and spaces
\* around it and returned the invoice number
C16_Witness ==
  /\ wcall.op = "computeInvoiceNumber"
  /\ wcall.args.ProtocolID = Protocol(2, <<" ","T","e","s","t","s"," ">>)
  /\ wresult.Bytes = <<"2","-","t","e","s","t","s","-","4">>
  /\ IsOk(wresult)

\* C17: the KeyDeriver normalises 'self' to the root public key, 'anyone'
\* to G and Other(P) to P; called with an uninitialised counterparty,
\* DerivePublicKey, DerivePrivateKey and DeriveSymmetricKey return an error
\* and no key, and never go on to derive with a missing counterparty key.
C17_Normalisation ==
  /\ (ValidCall("DerivePublicKey") \/ ValidCall("DerivePrivateKey")) =>
       /\ Len(wlog) = 1
       /\ wcall.args.Counterparty = Self => wlog[1].key.point = PubKey(wcall.root)
       /\ wcall.args.Counterparty = Anyone => wlog[1].key.point = PubKey(1)
       /\ wcall.args.Counterparty.Type = CounterpartyTypeOther
            => wlog[1].key = wcall.args.Counterparty.Counterparty
  /\ (/\ wcall.op \in {"DerivePublicKey", "DerivePrivateKey", "DeriveSymmetricKey"}
      /\ wcall.args.Counterparty = Uninitialized)
     => /\ ~IsOk(wresult)
        /\ wresult.Bytes = <<>>
        /\ \A i \in DOMAIN wlog : wlog[i].method # "DeriveChild"

(***************************************************************************)
(* Properties of the signatures and HMACs of the ProtoWallet               *)
(***************************************************************************)
\* the two forms of the sample message: the data, and its SHA-256 hash
SampleForms == {<<SampleData, <<>>>>, <<<<>>, Sha256(SampleData)>>}

\* VerifySignature was called by root B, for the counterparty of root A and
\* not for itself, with the signature on the wire, which root A made for
\* the counterparty of root B in the same, valid, context
VerifiedAcross(A, B) ==
  /\ wcall.op = "VerifySignature"
  /\ wcall.root = B
  /\ wcall.args.Counterparty = Other(IdentityKey(A))
  /\ ~wcall.args.ForSelf
  /\ wire.kind = "signature"
  /\ wire.root = A
  /\ wire.args.Counterparty = Other(IdentityKey(B))
  /\ wcall.args.Signature = wire.out.Signature
  /\ wcall.args.ProtocolID = wire.args.ProtocolID
  /\ wcall.args.KeyID = wire.args.KeyID
  /\ IsOk(computeInvoiceNumber(wire.args.ProtocolID, wire.args.KeyID))

\* C12: a signature root A creates for Other(pubB) over data m, or over the
\* hash SHA-256(m), is accepted (Valid, no error) by B's VerifySignature
\* for Other(pubA) with forSelf = false, whether B supplies m or SHA-256(m).
C12_SignatureAcrossParties ==
  \A A \in RootKeys, B \in RootKeys :
    (/\ VerifiedAcross(A, B)
     /\ <<wire.args.Data, wire.args.Hash>> \in SampleForms
     /\ <<wcall.args.Data, wcall.args.Hash>> \in SampleForms)
    => wresult = WalletResult(NoErr, <<>>, NoSignature, TRUE)

\* root 3 has accepted, from the data, a signature root 2 made over the hash
C12_Witness ==
  /\ VerifiedAcross(2, 3)
  /\ <<wire.args.Data, wire.args.Hash>> = <<<<>>, Sha256(SampleData)>>
  /\ <<wcall.args.Data, wcall.args.Hash>> = <<SampleData, <<>>>>
  /\ wresult.Valid
  /\ IsOk(wresult)

\* the key of the call: the public key VerifySignature verifies under, or
\* the symmetric key of VerifyHmac
CallKey ==
  IF wcall.op = "VerifySignature"
    THEN KdDerivePublicKey(NewKeyDeriver(wcall.root), wcall.args.ProtocolID,
                           wcall.args.KeyID, VerifySignatureCounterparty(wcall.args),
                           wcall.args.ForSelf)
  ELSE KdDeriveSymmetricKey(NewKeyDeriver(wcall.root), wcall.args.ProtocolID,
                            wcall.args.KeyID, HmacCounterparty(wcall.args))

\* C13: VerifySignature never returns a result with Valid = false: it
\* returns (Valid, no error) exactly when the signature verifies, and an
\* error and no result otherwise; VerifyHmac returns (Valid = false, no
\* error) when the supplied HMAC differs from the recomputed one and
\* (Valid, no error) when it matches.
C13_VerifyResults ==
  /\ wcall.op = "VerifySignature" =>
       /\ wresult.Valid <=> IsOk(wresult)
       /\ ~IsOk(wresult) => wresult = WalletError(wresult.err)
       /\ wresult.Valid <=>
            /\ Len(wcall.args.Data) > 0 \/ Len(wcall.args.Hash) > 0
            /\ IsOk(CallKey)
            /\ Verify(wcall.args.Signature, DataHash(wcall.args), CallKey.val)
  /\ (wcall.op = "VerifyHmac" /\ IsOk(CallKey)) =>
       /\ IsOk(wresult)
       /\ wresult.Valid <=> wcall.args.Hmac = HmacSha256(CallKey.val, wcall.args.Data)

\* VerifySignature has derived its key and returned an error for the
\* signature on the wire, which does not verify under that key
C13_Witness ==
  /\ wcall.op = "VerifySignature"
  /\ wcall.args.Counterparty.Type = CounterpartyTypeOther
  /\ wcall.args.Signature = wire.out.Signature
  /\ IsOk(CallKey)
  /\ wresult = WalletError(<<"signature is not valid">>)

\* C14: CreateSignature and VerifySignature return an error, and sign or
\* verify nothing, whenever a non-empty hash to sign or verify directly
\* whose length is not 32 bytes is supplied; when only data is supplied the
\* message signed or verified is SHA-256(data).
C14_HashLength ==
  /\ (/\ wcall.op \in {"CreateSignature", "VerifySignature"}
      /\ Len(wcall.args.Hash) > 0
      /\ Len(wcall.args.Hash) # HashLen)
     => /\ ~IsOk(wresult)
        /\ wresult = WalletError(wresult.err)
  /\ (/\ wcall.op = "CreateSignature"
      /\ Len(wcall.args.Hash) = 0
      /\ IsOk(wresult))
     => wresult.Signature =
          Sign(KdDerivePrivateKey(NewKeyDeriver(wcall.root), wcall.args.ProtocolID,
                                  wcall.args.KeyID,
                                  CreateSignatureCounterparty(wcall.args)).val,
               Sha256(wcall.args.Data)).val

(***************************************************************************)
(* Properties of the wire codec                                            *)
(***************************************************************************)
\* a hexadecimal string that hex.EncodeToString gives back
CanonicalHex(x) == IsOk(HexDecode(x)) /\ HexEncode(HexDecode(x).val) = x

\* a txid in canonical hexadecimal
CanonicalTxid(x) == CanonicalHex(x) /\ Len(x) = 2 * TxidLen

\* every element of an optional slice satisfies P
AllOf(o, P(_)) == o # None => \A i \in DOMAIN o[1] : P(o[1][i])

CanonicalInput(input) ==
  CanonicalHex(input.UnlockingScript) /\ CanonicalTxid(input.Outpoint.Txid)

CanonicalOutput(output) == CanonicalHex(output.LockingScript)

CanonicalOutpoint(outpoint) == CanonicalTxid(outpoint.Txid)

CanonicalOptions(options) ==
  /\ options.TrustSelf \in {"known", ""}
  /\ AllOf(options.KnownTxids, CanonicalTxid)
  /\ AllOf(options.SendWith, CanonicalTxid)
  /\ AllOf(options.NoSendChange, CanonicalOutpoint)

\* the arguments hold scripts and txids in lower-case hexadecimal, txids of
\* 32 bytes and a TrustSelf that is "known" or empty
Canonical(a) ==
  /\ AllOf(a.Inputs, CanonicalInput)
  /\ AllOf(a.Outputs, CanonicalOutput)
  /\ a.Options # None => CanonicalOptions(a.Options[1])

\* the transport handed over the encoding as it was written
Untouched == wcall.cut = 0 /\ wcall.tail = <<>>

\* C18: for every CreateActionArgs value a (here: every canonical one),
\* SerializeCreateActionArgs(a) succeeds and DeserializeCreateActionArgs of
\* its bytes succeeds and returns a structure equal to a
C18_CreateActionRoundTrip ==
  (wcall.op = "CreateActionArgs" /\ Untouched /\ Canonical(wcall.args)) =>
    /\ wire # NoEncoding => IsOk(wire)
    /\ wresult # NoDecoding => wresult = Ok(wcall.args)

\* the deserialisers of the argument structures
ArgsCodecs ==
  {"CreateActionArgs", "CreateSignatureArgs", "ListActionsArgs", "InternalizeActionArgs"}

\* the deserialiser op was handed a valid encoding followed by a tail
DecodedWithTail(op) ==
  wcall.op = op /\ wcall.cut = 0 /\ wcall.tail # <<>> /\ wresult # NoDecoding

\* C19: every argument deserialiser (DeserializeCreateActionArgs,
\* DeserializeCreateSignatureArgs, DeserializeListActionsArgs and
\* DeserializeInternalizeActionArgs) returns an error for a valid encoding
\* followed by a non-empty byte string
C19_TailRejected == \A op \in ArgsCodecs : DecodedWithTail(op) => ~IsOk(wresult)

\* the message handed to ReadRequestFrame
FrameRead == Transported(wcall, wire.val)

\* the message has a call byte and an originator-length byte, and fewer
\* bytes after them than that length
TooShortForOriginator(data) == Len(data) >= 2 /\ Len(data) < 2 + data[2]

\* C20: for every call id, originator of at most 255 bytes and params,
\* WriteRequestFrame gives the call byte, one originator-length byte, the
\* originator and the params; ReadRequestFrame of it succeeds with the same
\* call id, originator and params; and ReadRequestFrame of a frame too short
\* for its declared originator length returns an error
C20_RequestFrame ==
  (wcall.op = "RequestFrame" /\ Len(wcall.args.Originator) <= MaxOriginatorLen) =>
    /\ wire # NoEncoding =>
         wire = Ok(<<wcall.args.Call, Len(wcall.args.Originator)>>
                     \o wcall.args.Originator \o wcall.args.Params)
    /\ (wresult # NoDecoding /\ Untouched) => wresult = Ok(wcall.args)
    /\ (wresult # NoDecoding /\ TooShortForOriginator(FrameRead)) => ~IsOk(wresult)

\* a frame with the longest originator and with params was written and read
\* back as it was
C20_Witness ==
  /\ wcall.op = "RequestFrame"
  /\ Untouched
  /\ Len(wcall.args.Originator) = MaxOriginatorLen
  /\ wcall.args.Params # <<>>
  /\ wresult = Ok(wcall.args)

\* C21: a result frame written for a result r and no error starts with status
\* byte 0 followed by r, and ReadResultFrame returns exactly r and no error; a
\* frame written for an error with a code in 1..255 starts with that code, and
\* ReadResultFrame returns no result and an error with the same code, message
\* and stack.
ResultFrameWritten == wcall.op = "ResultFrame" /\ IsOk(wire)

ResultFrameRead == ResultFrameWritten /\ Untouched /\ wresult # NoDecoding

C21_ResultFrame ==
  /\ (ResultFrameWritten /\ wcall.args.Err = None)
       => /\ wire.val = <<0>> \o wcall.args.Result
          /\ ResultFrameRead => wresult = ResultRead(wcall.args.Result, NoErr, None)
  /\ (ResultFrameWritten /\ wcall.args.Err # None /\ wcall.args.Err[1].Code \in 1..255)
       => /\ wire.val[1] = wcall.args.Err[1].Code
          /\ wire.val[1] # 0
          /\ ResultFrameRead
               => /\ ~IsOk(wresult)
                  /\ wresult.val = <<>>
                  /\ wresult.Error = wcall.args.Err

C21_Witness ==
  /\ ResultFrameRead
  /\ wcall.args.Err # None
  /\ wcall.args.Err[1].Code = 255
  /\ Len(wcall.args.Err[1].Message) = 253
  /\ wcall.args.Err[1].Stack # <<>>
  /\ wresult.Error = wcall.args.Err

\* C29: the frame WriteResultFrame writes for a non-nil error, whatever its
\* Code byte, message and stack, never starts with status byte 0, and
\* ReadResultFrame decodes it as an error, never as a successful result.
C29_ErrorFrameNeverSuccess ==
  (ResultFrameWritten /\ wcall.args.Err # None)
    => /\ wire.val[1] # 0
       /\ ResultFrameRead => (~IsOk(wresult) /\ wresult.Error = wcall.args.Err)

(***************************************************************************)
(* Failed derivations and the cache                                        *)
(***************************************************************************)
\* thread t is in a call whose derivation on the wrapped KeyDeriver fails
Failing(t) ==
  pc[t] \in {"cacheGet", "derive"} /\ ~IsOk(Underlying(keyDeriver, args[t]))

\* C24: a derive call whose underlying derivation returns an error leaves the
\* cache unchanged: its lookup misses and promotes nothing, so that every
\* such call derives again, and the failed derivation returns the error
\* without an entry being stored, changed, promoted or evicted.
C24_ErrorLeavesCache ==
  [][\A t \in Threads :
       /\ Failing(t) => key[t] \notin DOMAIN items
       /\ (Failing(t) /\ pc'[t] # pc[t])
            => /\ items' = items
               /\ list' = list
               /\ accessOrder' = accessOrder
               /\ lastPut' = lastPut
               /\ pc[t] = "cacheGet" => pc'[t] = "derive"
               /\ pc[t] = "derive"
                    => /\ pc'[t] = "return"
                       /\ ret'[t] = Underlying(keyDeriver, args[t])
                       /\ key[t] \notin DOMAIN items']_vars

C24_Witness ==
  \E t \in Threads :
    /\ pc[t] = "return"
    /\ ~IsOk(ret[t])
    /\ ret[t] = Underlying(keyDeriver, args[t])
    /\ Cardinality(DOMAIN items) = CacheSize
    /\ key[t] \notin DOMAIN items
    /\ calls >= 3

(***************************************************************************)
(* Cache keys of equal value                                               *)
(***************************************************************************)
\* two cache keys are equal in value: the same method, protocol, key ID and
\* forSelf flag, and counterparties of the same type with equal public keys
SameValue(k1, k2) ==
  /\ k1.method = k2.method
  /\ k1.protocol = k2.protocol
  /\ k1.keyID = k2.keyID
  /\ k1.forSelf = k2.forSelf
  /\ k1.counterparty.Type = k2.counterparty.Type
  /\ k1.counterparty.Counterparty.point = k2.counterparty.Counterparty.point

\* C28: derive calls whose arguments are equal in value share one cache
\* entry: the cache never holds two entries for keys of equal value, and the
\* lookup of a call whose key equals in value the key of an entry is a hit,
\* also when the counterparty Other(P) carries a separately constructed
\* public key equal to P.
C28_EqualArgsShareEntry ==
  [][/\ \A k1, k2 \in DOMAIN items : SameValue(k1, k2) => k1 = k2
     /\ \A t \in Threads :
          (/\ pc[t] = "cacheGet"
           /\ pc'[t] # pc[t]
           /\ \E k \in DOMAIN items : SameValue(k, key[t]))
            => (ok'[t] /\ pc'[t] = "return")]_vars

(***************************************************************************)
(* Properties of NewProtoWallet                                            *)
(***************************************************************************)
\* C27: NewProtoWallet with Type privateKey returns a wallet whose root is
\* the private key supplied, with Type keyDeriver a wallet that uses the
\* KeyDeriver supplied, with Type anyone a wallet whose root is the anyone
\* key (scalar 1, public point G); any other Type returns an error and no
\* wallet.
C27_NewProtoWallet ==
  wcall.op = "NewProtoWallet" =>
    /\ (wcall.args.Type = ProtoWalletArgsTypePrivateKey
          /\ wcall.args.PrivateKey # NilKeyDeriver.privateKey)
         => wresult = Ok([keyDeriver |-> NewKeyDeriver(wcall.args.PrivateKey)])
    /\ (wcall.args.Type = ProtoWalletArgsTypeKeyDeriver
          /\ wcall.args.KeyDeriver # NilKeyDeriver)
         => wresult = Ok([keyDeriver |-> wcall.args.KeyDeriver])
    /\ wcall.args.Type = ProtoWalletArgsTypeAnyone
         => wresult = Ok([keyDeriver |-> [privateKey |-> 1, publicKey |-> PubKey(1)]])
    /\ wcall.args.Type \notin {ProtoWalletArgsTypePrivateKey, ProtoWalletArgsTypeKeyDeriver,
                               ProtoWalletArgsTypeAnyone}
         => wresult = Fail(<<"invalid rootKeyOrKeyDeriver">>, NoProtoWallet)

\* a carries data, or a pre-hash of 32 bytes, and not both
CarriesPayload(a) ==
  \/ a.Data # None /\ a.Data[1] # <<>> /\ a.HashToDirectlySign = <<>>
  \/ a.Data = None /\ Len(a.HashToDirectlySign) = HashLen

\* the message handed to DeserializeCreateSignatureArgs has a payload-type
\* flag after the key related parameters, and the flag is neither 1 nor 2
OtherPayloadFlag ==
  /\ wcall.op = "CreateSignatureArgs"
  /\ wresult # NoDecoding
  /\ Len(Transported(wcall, wire.val)) > Len(EncodeKeyRelatedParams(wcall.args).val)
  /\ Transported(wcall, wire.val)[Len(EncodeKeyRelatedParams(wcall.args).val) + 1]
       \notin {1, 2}

RecognisedProtocols(a) ==
  \A i \in DOMAIN a.Outputs :
    a.Outputs[i].Protocol \in {<<>>, InternalizeProtocolWalletPayment,
                               InternalizeProtocolBasketInsertion}

InternalizeEncoded ==
  wcall.op = "InternalizeActionArgs" /\ RecognisedProtocols(wcall.args) /\ wire # NoEncoding

C30_BytesOnlyReads ==
  wcall.op = "Bytes"
    => /\ wlog = <<wcall.args>>
       /\ IsOk(wire) => wresult = wire

(***************************************************************************)
(* Properties of the wallet wire                                           *)
(***************************************************************************)
Methods ==
  {"CreateAction", "SignAction", "AbortAction", "ListActions", "InternalizeAction",
   "ListOutputs"}

\* the request frame of the message the processor was handed
Requested == ReadRequestFrame(wcall.message)

\* the call byte of the request is the byte of no method
UnknownCallId == IsOk(Requested) /\ Requested.val.Call \notin {CallByte(m) : m \in Methods}

\* the arguments of a request frame do not decode
Undecodable(requestFrame) ==
  \/ /\ requestFrame.Call = CallByte("ListActions")
     /\ ~IsOk(DeserializeListActionsArgs(requestFrame.Params))
  \/ /\ requestFrame.Call = CallByte("InternalizeAction")
     /\ ~IsOk(DeserializeInternalizeActionArgs(requestFrame.Params))

ArgsUndecodable == IsOk(Requested) /\ \E requestFrame \in {Requested.val} : Undecodable(requestFrame)

\* the wallet was called and returned an error
WalletFailed == wlog # <<>> /\ ~IsOk(wcall.answer)

\* the processor has answered a request it could not serve
ProcessorFailed ==
  /\ wcall.op # ""
  /\ wcall.at = "answered"
  /\ (UnknownCallId \/ ArgsUndecodable \/ WalletFailed)

\* C22: when the wallet method returns an error, the arguments of the
\* request fail to decode or the call id is unknown, TransmitToWallet
\* answers with a result frame whose status byte is in 1..255 and which
\* carries the error message, so that ReadResultFrame of the answer reports
\* that error.
C22_FailureAnsweredWithErrorFrame ==
  ProcessorFailed =>
    /\ IsOk(wire)
    /\ wire.val # <<>>
    /\ wire.val[1] \in 1..255
    /\ ReadResultFrame(wire.val).Error # None
    /\ ReadResultFrame(wire.val).Error[1].Message # <<>>

\* C23: for a call routed through the transceiver into the processor, the
\* wallet method of the same name is invoked exactly once with the
\* arguments and the originator the caller passed, and the caller receives
\* the result the wallet returned (for InternalizeAction with its Accepted
\* flag), or an error when the wallet returned one.
C23_WireIsTransparent ==
  (wcall.op \in WireMethods /\ wcall.at = "returned") =>
    /\ wlog = <<Invocation(wcall.op, wcall.args, wcall.originator)>>
    /\ IsOk(wcall.answer) => wresult = wcall.answer
    /\ ~IsOk(wcall.answer) => ~IsOk(wresult)

==============================================================================
